---- MODULE Spec2Model ----
(***************************************************************************)
(* A model of the collections of mod-utilities: SlotMap (generational      *)
(* arena), Map, BiMap and NamedSlotMap (src/src/collections).  Every Vec   *)
(* is a sequence; the code's indices are 0-based, so position i of a Vec   *)
(* is element i + 1 of the sequence that models it.  The thread local      *)
(* temporary strings (src/src/temp.rs) are modelled next to them.          *)
(***************************************************************************)
EXTENDS Integers, Sequences, FiniteSets, TLC

(* Bounds of the model. *)
MaxLen == 3     \* a Map holds at most this many entries
MaxLenBi == 2   \* a BiMap on its own holds at most this many entries
MaxOther == 2   \* the Map merged into another holds at most this many entries
MaxOtherBi == 1 \* the BiMap merged into another is collected from at most this many pairs
NsmSlots == 2   \* the slot table of the NamedSlotMap grows to at most this many slots
NsmFrees == 2   \* at most this many removes of the NamedSlotMap succeed
MaxSlots == 3   \* the slot table of a SlotMap grows to at most this many slots
MaxFrees == 4   \* in the capped specifications at most this many removes succeed
WrapSlots == 1  \* slot table bound of the specification that reaches the wrap
IdxFrees == 1   \* removes of each arena in the specification of the four containers
GenBits == 3    \* width of the generation counter in the model (u32 in the code)
MaxThreads == 2 \* the threads that use the temporary buffers, the main thread included
MaxAddrs == 2   \* the blocks the allocator hands out

GenModulus == 2 ^ GenBits

(* The values stored in a SlotMap / NamedSlotMap. *)
Vals == {"x", "y"}

(* Option<T>. *)
None == [tag |-> "None"]
Some(v) == [tag |-> "Some", val |-> v]

(* The outcome of an unchecked read outside a Vec: undefined behaviour. *)
UB == [tag |-> "UB"]
(* The outcome of a call that panics. *)
Panic == [tag |-> "Panic"]

VARIABLES
  sm,       \* the SlotMap: [keys, values, slots, freelist]
  hist,     \* ghost: [live: the (key, value) pairs inserted and not yet removed,
            \*         dead: the keys whose remove succeeded,
            \*         freed: the slots freed and not yet reused, oldest first]
  build,    \* "debug" (integer overflow panics) or "release" (it wraps)
  map,      \* the Map: [keys, values, hashes]
  bimap,    \* the BiMap: [keys, values, key_hashes, value_hashes]
  nsm,      \* the NamedSlotMap: [slot_map, id_bindings]
  nhist,    \* ghost: the keys the NamedSlotMap has issued
  last,     \* the last call: [op, key, val, ret]
  halt,     \* "run", or "panic" / "ub" once a call panicked / read out of bounds
  threads,  \* temp: each thread is "new", "live" or "done"
  heap,     \* temp: each block of the allocator: [free, data]
  buffs,    \* temp: the thread_local String of each thread and function: [ptr, cap, len]
  results   \* ghost: the &'static str each thread was last returned by each function

tempVars == <<threads, heap, buffs, results>>

vars == <<sm, hist, build, map, bimap, nsm, nhist, last, halt, tempVars>>

(***************************************************************************)
(* Vec helpers.                                                            *)
(***************************************************************************)

(* Vec::swap_remove(i), 0 <= i < len: the last element takes position i.   *)
SwapRemove(s, i) ==
  [j \in 1..(Len(s) - 1) |-> IF j = i + 1 THEN s[Len(s)] ELSE s[j]]

(* Vec::pop on a non-empty Vec. *)
PopLast(s) == SubSeq(s, 1, Len(s) - 1)

(***************************************************************************)
(* SlotMap (src/src/collections/slot_map.rs).                              *)
(***************************************************************************)

KeyData(i, g) == [idx |-> i, gen |-> g]

NULL == KeyData(0, 0)

SM_new == [keys |-> <<>>, values |-> <<>>, slots |-> <<>>, freelist |-> None]

SM_len(m) == Len(m.values)

(* SlotMap::contains_key *)
SM_contains_key(m, key) ==
  IF key.idx < Len(m.slots) THEN m.slots[key.idx + 1].gen = key.gen ELSE FALSE

(* Mutant of get: the generation of the key is not compared. *)
SM_get_NoGenCheck(m, key) ==
  IF key.idx < Len(m.slots)
  THEN LET slot == m.slots[key.idx + 1] IN
       IF slot.idx < Len(m.values) THEN Some(m.values[slot.idx + 1]) ELSE UB
  ELSE None

(* SlotMap::get: None, Some(value), or UB when the unchecked read of the   *)
(* dense store is out of bounds.                                           *)
SM_get(m, key) ==
  IF key.idx < Len(m.slots)
  THEN LET slot == m.slots[key.idx + 1] IN
       IF slot.gen = key.gen
       THEN IF slot.idx < Len(m.values) THEN Some(m.values[slot.idx + 1]) ELSE UB
       ELSE None
  ELSE None

(* SlotMap::get_mut: the checks and the unchecked read of get. *)
SM_get_mut(m, key) ==
  IF key.idx < Len(m.slots)
  THEN LET slot == m.slots[key.idx + 1] IN
       IF slot.gen = key.gen
       THEN IF slot.idx < Len(m.values) THEN Some(m.values[slot.idx + 1]) ELSE UB
       ELSE None
  ELSE None

(* Whether get and get_mut reach values.get_unchecked(slot.idx): only past *)
(* the bounds check of the slot index and the comparison of generations.   *)
SM_get_reads_dense(m, key) ==
  IF key.idx < Len(m.slots) THEN m.slots[key.idx + 1].gen = key.gen ELSE FALSE

(* Option::expect / unwrap on the result of a lookup: a panic on None, the *)
(* element on Some.                                                        *)
Expect(o) ==
  IF o = None THEN Panic ELSE IF o = UB THEN UB ELSE [tag |-> "Ret", val |-> o.val]

(* Index<K> for SlotMap: get(key).expect(..) *)
SM_index(m, key) == Expect(SM_get(m, key))

(* IndexMut<K> for SlotMap: get_mut(key).expect(..) *)
SM_index_mut(m, key) == Expect(SM_get_mut(m, key))

(* PairIter::new and PairIterMut::new: the length of the arena and the     *)
(* position 0 (the pointers are the arena's own arrays).                   *)
PairIter_new(m) == [len |-> SM_len(m), idx |-> 0]

(* Mutant of PairIter::next: the pair is read from the far end. *)
PairIter_next_FromEnd(m, it) ==
  IF it.idx < it.len
  THEN [it |-> [it EXCEPT !.idx = @ + 1],
        ret |-> Some(<<m.keys[it.len - it.idx], m.values[it.len - it.idx]>>)]
  ELSE [it |-> it, ret |-> None]

(* PairIter::next: the pair at idx, read unchecked, while idx < len. *)
PairIter_next(m, it) ==
  IF it.idx < it.len
  THEN [it |-> [it EXCEPT !.idx = @ + 1],
        ret |-> IF it.idx < Len(m.keys) /\ it.idx < Len(m.values)
                THEN Some(<<m.keys[it.idx + 1], m.values[it.idx + 1]>>)
                ELSE UB]
  ELSE [it |-> it, ret |-> None]

(* PairIterMut::next: as PairIter::next, the value borrowed mutably. *)
PairIterMut_next(m, it) ==
  IF it.idx < it.len
  THEN [it |-> [it EXCEPT !.idx = @ + 1],
        ret |-> IF it.idx < Len(m.keys) /\ it.idx < Len(m.values)
                THEN Some(<<m.keys[it.idx + 1], m.values[it.idx + 1]>>)
                ELSE UB]
  ELSE [it |-> it, ret |-> None]

(* What a for loop over pair_iter sees: the items of next until None. *)
RECURSIVE PairIter_items(_, _)
PairIter_items(m, it) ==
  LET n == PairIter_next(m, it) IN
  IF n.ret = None THEN <<>>
  ELSE IF n.ret = UB THEN <<UB>>
       ELSE <<n.ret.val>> \o PairIter_items(m, n.it)

RECURSIVE PairIterMut_items(_, _)
PairIterMut_items(m, it) ==
  LET n == PairIterMut_next(m, it) IN
  IF n.ret = None THEN <<>>
  ELSE IF n.ret = UB THEN <<UB>>
       ELSE <<n.ret.val>> \o PairIterMut_items(m, n.it)

(* SlotMap::pair_iter and pair_iter_mut, iterated to the end. *)
SM_pair_iter(m) == PairIter_items(m, PairIter_new(m))

SM_pair_iter_mut(m) == PairIterMut_items(m, PairIter_new(m))

(* Mutant of acquire_slot: the slot is not bound to the dense position. *)
SM_acquire_slot_NoBind(m, value_idx) ==
  IF m.freelist # None
  THEN LET fl == m.freelist.val
           slot_idx == fl.head
           slot == m.slots[slot_idx + 1]
       IN [sm |-> [m EXCEPT !.freelist =
                      IF fl.tail # slot_idx
                      THEN Some([head |-> slot.idx, tail |-> fl.tail])
                      ELSE None],
           key |-> KeyData(slot_idx, slot.gen)]
  ELSE [sm |-> [m EXCEPT !.slots = Append(@, [idx |-> 0, gen |-> 0])],
        key |-> KeyData(Len(m.slots), 0)]

(* Mutant of acquire_slot: the free-list head is not advanced past the     *)
(* slot taken.                                                             *)
SM_acquire_slot_KeepHead(m, value_idx) ==
  IF m.freelist # None
  THEN LET fl == m.freelist.val
           slot_idx == fl.head
           slot == m.slots[slot_idx + 1]
       IN [sm |-> [m EXCEPT !.slots[slot_idx + 1].idx = value_idx,
                            !.freelist = IF fl.tail # slot_idx THEN @ ELSE None],
           key |-> KeyData(slot_idx, slot.gen)]
  ELSE [sm |-> [m EXCEPT !.slots = Append(@, [idx |-> value_idx, gen |-> 0])],
        key |-> KeyData(Len(m.slots), 0)]

(* SlotMap::acquire_slot: the slot at the free-list head, or a new         *)
(* generation-0 slot; the slot is bound to value_idx.  Yields the arena    *)
(* and the KeyData of the slot.                                            *)
SM_acquire_slot(m, value_idx) ==
  IF m.freelist # None
  THEN LET fl == m.freelist.val
           slot_idx == fl.head
           slot == m.slots[slot_idx + 1]
       IN [sm |-> [m EXCEPT !.slots[slot_idx + 1].idx = value_idx,
                            !.freelist =
                              IF fl.tail # slot_idx
                              THEN Some([head |-> slot.idx, tail |-> fl.tail])
                              ELSE None],
           key |-> KeyData(slot_idx, slot.gen)]
  ELSE [sm |-> [m EXCEPT !.slots = Append(@, [idx |-> value_idx, gen |-> 0])],
        key |-> KeyData(Len(m.slots), 0)]

(* `free_slot.gen += 1` overflows. *)
SM_gen_overflows(m, free_idx) == m.slots[free_idx + 1].gen + 1 >= GenModulus

(* Mutant of free_slot: the generation of the freed slot is not raised. *)
SM_free_slot_NoBump(m, free_idx) ==
  IF m.freelist # None
  THEN [m EXCEPT !.slots[m.freelist.val.tail + 1].idx = free_idx,
                 !.freelist = Some([head |-> m.freelist.val.head, tail |-> free_idx])]
  ELSE [m EXCEPT !.freelist = Some([head |-> free_idx, tail |-> free_idx])]

(* Mutant of free_slot: the freed slot is linked at the free-list head. *)
SM_free_slot_AtHead(m, free_idx) ==
  LET m1 == [m EXCEPT !.slots[free_idx + 1].gen = (@ + 1) % GenModulus] IN
  IF m1.freelist # None
  THEN [m1 EXCEPT !.slots[free_idx + 1].idx = m1.freelist.val.head,
                  !.freelist = Some([head |-> free_idx, tail |-> m1.freelist.val.tail])]
  ELSE [m1 EXCEPT !.freelist = Some([head |-> free_idx, tail |-> free_idx])]

(* SlotMap::free_slot: the generation is raised (wrapping, as the release  *)
(* build does), then the slot is linked at the free-list tail.             *)
SM_free_slot(m, free_idx) ==
  LET m1 == [m EXCEPT !.slots[free_idx + 1].gen = (@ + 1) % GenModulus] IN
  IF m1.freelist # None
  THEN [m1 EXCEPT !.slots[m1.freelist.val.tail + 1].idx = free_idx,
                  !.freelist = Some([head |-> m1.freelist.val.head, tail |-> free_idx])]
  ELSE [m1 EXCEPT !.freelist = Some([head |-> free_idx, tail |-> free_idx])]

(* SlotMap::insert: acquire the slot, then push the value and the key. *)
SM_insert(m, value) ==
  LET a == SM_acquire_slot(m, SM_len(m)) IN
  [sm |-> [a.sm EXCEPT !.values = Append(@, value), !.keys = Append(@, a.key)],
   key |-> a.key]

(* The closures given to insert_with_key: two that ignore the key and two  *)
(* whose value depends on the key they receive.                            *)
Closures == {"always_x", "always_y", "by_gen", "by_idx"}

ApplyClosure(f, key) ==
  CASE f = "always_x" -> "x"
    [] f = "always_y" -> "y"
    [] f = "by_gen" -> IF key.gen % 2 = 0 THEN "x" ELSE "y"
    [] f = "by_idx" -> IF key.idx % 2 = 0 THEN "x" ELSE "y"

(* Mutant of insert_with_key: the closure is given a key made of the dense *)
(* position rather than the key of the acquired slot.                      *)
SM_insert_with_key_DenseKey(m, f) ==
  LET a == SM_acquire_slot(m, SM_len(m))
      arg == KeyData(SM_len(m), a.key.gen)
      value == ApplyClosure(f, arg)
  IN [sm |-> [a.sm EXCEPT !.values = Append(@, value), !.keys = Append(@, a.key)],
      key |-> a.key, arg |-> arg, value |-> value, seen |-> a.sm]

(* SlotMap::insert_with_key: acquire the slot, call the closure with its   *)
(* key, then push the closure's value and the key.  arg is the key the     *)
(* closure receives, seen the arena at the time the closure runs.          *)
SM_insert_with_key(m, f) ==
  LET a == SM_acquire_slot(m, SM_len(m))
      value == ApplyClosure(f, a.key)
  IN [sm |-> [a.sm EXCEPT !.values = Append(@, value), !.keys = Append(@, a.key)],
      key |-> a.key, arg |-> a.key, value |-> value, seen |-> a.sm]

(* SlotMap::insert_with_key when the closure panics: the slot has been     *)
(* acquired, the unwinding skips both pushes.                              *)
SM_insert_with_key_unwind(m) ==
  LET a == SM_acquire_slot(m, SM_len(m)) IN
  [sm |-> a.sm, key |-> a.key, ret |-> Panic]

(* Mutant of the dense part of remove: the displaced key's slot is not     *)
(* retargeted.                                                             *)
SM_remove_dense_NoFixup(m, value_idx) ==
  [m EXCEPT !.keys = SwapRemove(@, value_idx),
            !.values = SwapRemove(@, value_idx)]

(* The dense arrays and slot table of remove before free_slot: swap_remove *)
(* of both arrays, then the displaced key's slot is retargeted.            *)
SM_remove_dense(m, value_idx) ==
  LET keys1 == SwapRemove(m.keys, value_idx)
      values1 == SwapRemove(m.values, value_idx)
  IN [m EXCEPT !.keys = keys1,
               !.values = values1,
               !.slots = IF value_idx < Len(keys1)
                         THEN [@ EXCEPT ![keys1[value_idx + 1].idx + 1].idx = value_idx]
                         ELSE @]

(* Mutant of remove: the generation of the key is not compared. *)
SM_remove_NoGenCheck(m, key, b) ==
  IF key.idx < Len(m.slots)
  THEN LET value_idx == m.slots[key.idx + 1].idx IN
       IF value_idx >= Len(m.keys) \/ value_idx >= Len(m.values)
       THEN [sm |-> m, ret |-> Panic]
       ELSE LET m1 == SM_remove_dense(m, value_idx) IN
            IF SM_gen_overflows(m1, key.idx) /\ b = "debug"
            THEN [sm |-> m1, ret |-> Panic]
            ELSE [sm |-> SM_free_slot(m1, key.idx), ret |-> Some(m.values[value_idx + 1])]
  ELSE [sm |-> m, ret |-> None]

(* SlotMap::remove under build b.  ret is None, Some(value) or Panic:      *)
(* swap_remove panics on an index outside the Vec, and the generation      *)
(* increment panics on overflow in a debug build.                          *)
SM_remove(m, key, b) ==
  IF key.idx < Len(m.slots) /\ m.slots[key.idx + 1].gen = key.gen
  THEN LET value_idx == m.slots[key.idx + 1].idx IN
       IF value_idx >= Len(m.keys) \/ value_idx >= Len(m.values)
       THEN [sm |-> m, ret |-> Panic]
       ELSE LET m1 == SM_remove_dense(m, value_idx) IN
            IF SM_gen_overflows(m1, key.idx) /\ b = "debug"
            THEN [sm |-> m1, ret |-> Panic]
            ELSE [sm |-> SM_free_slot(m1, key.idx), ret |-> Some(m.values[value_idx + 1])]
  ELSE [sm |-> m, ret |-> None]

(***************************************************************************)
(* Map (src/src/collections/map.rs), as Map<u8, V>.                        *)
(***************************************************************************)

(* The keys of a Map and the results of calls. *)
MapKeys == {0, 1, 2}
Unit == [tag |-> "Unit"]
Ret(v) == [tag |-> "Ret", val |-> v]
Res(m, ret) == [m |-> m, ret |-> ret]
Failed(ret) == ret = UB \/ ret = Panic

(* Map::hash: a deterministic function of the key under which two          *)
(* different keys can collide (here 0 and 2).                              *)
M_hash(key) == key % 2

M_new == [keys |-> <<>>, values |-> <<>>, hashes |-> <<>>]

M_len(m) == Len(m.values)

(* The loop of index_of_hashed_key from position i: the first position     *)
(* whose stored hash and stored key both match; the unchecked read of keys *)
(* is undefined outside keys.                                              *)
RECURSIVE M_scan_key(_, _, _, _)
M_scan_key(m, hash, key, i) ==
  IF i >= Len(m.hashes) THEN None
  ELSE IF m.hashes[i + 1] = hash
       THEN IF i >= Len(m.keys) THEN UB
            ELSE IF m.keys[i + 1] = key THEN Some(i)
                 ELSE M_scan_key(m, hash, key, i + 1)
       ELSE M_scan_key(m, hash, key, i + 1)

(* Map::index_of_hashed_key *)
M_index_of_hashed_key(m, hash, key) == M_scan_key(m, hash, key, 0)

(* Map::index_of_key *)
M_index_of_key(m, key) == M_index_of_hashed_key(m, M_hash(key), key)

(* Map::index_of_value: the first position holding the value. *)
M_index_of_value(m, value) ==
  IF \E i \in 1..Len(m.values) : m.values[i] = value
  THEN Some((CHOOSE i \in 1..Len(m.values) :
               /\ m.values[i] = value
               /\ \A j \in 1..(i - 1) : m.values[j] # value) - 1)
  ELSE None

(* Map::contains_key, with UB passed on. *)
M_contains_key(m, key) ==
  LET r == M_index_of_key(m, key) IN IF r = UB THEN UB ELSE r # None

(* Map::contains_value *)
M_contains_value(m, value) == M_index_of_value(m, value) # None

(* Mutant of maybe_contains_key: only the first stored hash is compared. *)
M_maybe_contains_key_First(m, key) ==
  Len(m.hashes) > 0 /\ m.hashes[1] = M_hash(key)

(* Map::maybe_contains_key *)
M_maybe_contains_key(m, key) ==
  \E i \in 1..Len(m.hashes) : m.hashes[i] = M_hash(key)

(* Map::find_value *)
M_find_value(m, key) ==
  LET r == M_index_of_key(m, key) IN
  IF r = UB \/ r = None THEN r
  ELSE IF r.val < Len(m.values) THEN Some(m.values[r.val + 1]) ELSE UB

(* Mutant of Index for Map: an absent key yields the first value. *)
M_index_OrFirst(m, key) ==
  LET r == M_find_value(m, key) IN
  IF r = None /\ Len(m.values) > 0 THEN Ret(m.values[1]) ELSE Expect(r)

(* Index<&EqK> for Map: find_value(key).expect(..) *)
M_index(m, key) == Expect(M_find_value(m, key))

(* Map::find_key *)
M_find_key(m, value) ==
  LET r == M_index_of_value(m, value) IN
  IF r = None THEN None
  ELSE IF r.val < Len(m.keys) THEN Some(m.keys[r.val + 1]) ELSE UB

(* Map::insert *)
M_insert(m, key, value) ==
  LET hash == M_hash(key)
      r == M_scan_key(m, hash, key, 0)
  IN IF r = UB THEN Res(m, UB)
     ELSE IF r # None
          THEN IF r.val < Len(m.values)
               THEN Res([m EXCEPT !.values[r.val + 1] = value], Some(m.values[r.val + 1]))
               ELSE Res(m, UB)
          ELSE Res([keys |-> Append(m.keys, key),
                    values |-> Append(m.values, value),
                    hashes |-> Append(m.hashes, hash)], None)

(* Map::insert_unique_key *)
M_insert_unique_key(m, key, value) ==
  LET hash == M_hash(key)
      r == M_index_of_hashed_key(m, hash, key)
  IN IF r = UB THEN Res(m, UB)
     ELSE IF r # None THEN Res(m, Some(<<key, value>>))
          ELSE Res([keys |-> Append(m.keys, key),
                    values |-> Append(m.values, value),
                    hashes |-> Append(m.hashes, hash)], None)

(* Map::insert_unique_value *)
M_insert_unique_value(m, key, value) ==
  IF M_contains_value(m, value) THEN Res(m, Some(<<key, value>>))
  ELSE Res([keys |-> Append(m.keys, key),
            values |-> Append(m.values, value),
            hashes |-> Append(m.hashes, M_hash(key))], None)

(* Map::remove_by_index: hashes.swap_remove(idx), keys.swap_remove(idx),   *)
(* then the pair (keys.swap_remove(idx), values.swap_remove(idx)): keys is *)
(* swap_removed twice.  A swap_remove outside its Vec panics, with the     *)
(* removals before it done.                                                *)
M_remove_by_index(m, idx) ==
  IF idx < M_len(m)
  THEN IF idx >= Len(m.hashes) THEN Res(m, Panic)
       ELSE LET m1 == [m EXCEPT !.hashes = SwapRemove(@, idx)] IN
            IF idx >= Len(m1.keys) THEN Res(m1, Panic)
            ELSE LET m2 == [m1 EXCEPT !.keys = SwapRemove(@, idx)] IN
                 IF idx >= Len(m2.keys) THEN Res(m2, Panic)
                 ELSE Res([m2 EXCEPT !.keys = SwapRemove(@, idx),
                                     !.values = SwapRemove(@, idx)],
                          Some(<<m2.keys[idx + 1], m.values[idx + 1]>>))
  ELSE Res(m, None)

(* Map::remove_by_key *)
M_remove_by_key(m, key) ==
  LET r == M_index_of_key(m, key) IN
  IF r = UB \/ r = None THEN Res(m, r) ELSE M_remove_by_index(m, r.val)

(* Map::remove_by_value *)
M_remove_by_value(m, value) ==
  LET r == M_index_of_value(m, value) IN
  IF r = None THEN Res(m, None) ELSE M_remove_by_index(m, r.val)

(* Map::pop: hashes.pop(), then keys.pop().unwrap(), values.pop().unwrap() *)
M_pop(m) ==
  IF M_len(m) # 0
  THEN LET m1 == [m EXCEPT !.hashes = IF @ = <<>> THEN @ ELSE PopLast(@)] IN
       IF m1.keys = <<>> THEN Res(m1, Panic)
       ELSE Res([m1 EXCEPT !.keys = PopLast(@), !.values = PopLast(@)],
                Some(<<m.keys[Len(m.keys)], m.values[Len(m.values)]>>))
  ELSE Res(m, None)

(* Map::merge_discard from pair i of other (IntoIter yields the pairs in   *)
(* index order). *)
RECURSIVE M_merge_discard_from(_, _, _)
M_merge_discard_from(m, other, i) ==
  IF i >= Len(other.keys) THEN Res(m, Unit)
  ELSE LET r == M_insert_unique_key(m, other.keys[i + 1], other.values[i + 1]) IN
       IF Failed(r.ret) THEN r ELSE M_merge_discard_from(r.m, other, i + 1)

(* Map::merge_discard *)
M_merge_discard(m, other) == M_merge_discard_from(m, other, 0)

(* Map::merge_discard_to_vec from pair i of other, discard so far. *)
RECURSIVE M_merge_discard_to_vec_from(_, _, _, _)
M_merge_discard_to_vec_from(m, other, i, discard) ==
  IF i >= Len(other.keys) THEN Res(m, Ret(discard))
  ELSE LET r == M_insert_unique_key(m, other.keys[i + 1], other.values[i + 1]) IN
       IF Failed(r.ret) THEN r
       ELSE M_merge_discard_to_vec_from(r.m, other, i + 1,
              IF r.ret # None THEN Append(discard, r.ret.val) ELSE discard)

(* Map::merge_discard_to_vec *)
M_merge_discard_to_vec(m, other) == M_merge_discard_to_vec_from(m, other, 0, <<>>)

(* Map::merge_overwrite from pair i of other. *)
RECURSIVE M_merge_overwrite_from(_, _, _)
M_merge_overwrite_from(m, other, i) ==
  IF i >= Len(other.keys) THEN Res(m, Unit)
  ELSE LET r == M_insert(m, other.keys[i + 1], other.values[i + 1]) IN
       IF Failed(r.ret) THEN r ELSE M_merge_overwrite_from(r.m, other, i + 1)

(* Map::merge_overwrite *)
M_merge_overwrite(m, other) == M_merge_overwrite_from(m, other, 0)

(* FromIterator for Map: insert of each pair in turn. *)
RECURSIVE M_from_iter(_)
M_from_iter(pairs) ==
  IF pairs = <<>> THEN M_new
  ELSE M_insert(M_from_iter(PopLast(pairs)),
                pairs[Len(pairs)][1], pairs[Len(pairs)][2]).m

(* The maps given to a merge: those collected from up to MaxOther pairs. *)
OtherMaps ==
  {M_from_iter(s) : s \in UNION {[1..n -> MapKeys \X Vals] : n \in 0..MaxOther}}

(***************************************************************************)
(* BiMap (src/src/collections/bimap.rs), as BiMap<Key, String>: the        *)
(* instance NamedSlotMap uses.                                             *)
(***************************************************************************)

(* The names (ids) bound in a BiMap / NamedSlotMap. *)
Names == {"a", "b", "c"}

(* BiMap::hash_key: a deterministic function of (idx, gen) under which     *)
(* different keys can collide.                                             *)
BM_hash_key(key) == (key.idx + key.gen) % 2

(* BiMap::hash_value: "a" and "c" collide. *)
BM_hash_value(value) == IF value = "b" THEN 1 ELSE 0

BM_new == [keys |-> <<>>, values |-> <<>>, key_hashes |-> <<>>, value_hashes |-> <<>>]

BM_len(m) == Len(m.values)

(* The loop of index_of_hashed_key from position i. *)
RECURSIVE BM_scan_key(_, _, _, _)
BM_scan_key(m, hash, key, i) ==
  IF i >= Len(m.key_hashes) THEN None
  ELSE IF m.key_hashes[i + 1] = hash
       THEN IF i >= Len(m.keys) THEN UB
            ELSE IF m.keys[i + 1] = key THEN Some(i)
                 ELSE BM_scan_key(m, hash, key, i + 1)
       ELSE BM_scan_key(m, hash, key, i + 1)

(* The loop of index_of_hashed_value from position i: it runs over         *)
(* value_hashes and reads values unchecked.                                *)
RECURSIVE BM_scan_value(_, _, _, _)
BM_scan_value(m, hash, value, i) ==
  IF i >= Len(m.value_hashes) THEN None
  ELSE IF m.value_hashes[i + 1] = hash
       THEN IF i >= Len(m.values) THEN UB
            ELSE IF m.values[i + 1] = value THEN Some(i)
                 ELSE BM_scan_value(m, hash, value, i + 1)
       ELSE BM_scan_value(m, hash, value, i + 1)

(* BiMap::index_of_hashed_key *)
BM_index_of_hashed_key(m, hash, key) == BM_scan_key(m, hash, key, 0)

(* BiMap::index_of_key *)
BM_index_of_key(m, key) == BM_index_of_hashed_key(m, BM_hash_key(key), key)

(* BiMap::index_of_hashed_value *)
BM_index_of_hashed_value(m, hash, value) == BM_scan_value(m, hash, value, 0)

(* BiMap::index_of_value *)
BM_index_of_value(m, value) == BM_index_of_hashed_value(m, BM_hash_value(value), value)

(* BiMap::contains_value, with UB passed on. *)
BM_contains_value(m, value) ==
  LET r == BM_index_of_value(m, value) IN IF r = UB THEN UB ELSE r # None

(* BiMap::contains_key, with UB passed on. *)
BM_contains_key(m, key) ==
  LET r == BM_index_of_key(m, key) IN IF r = UB THEN UB ELSE r # None

(* BiMap::maybe_contains_key *)
BM_maybe_contains_key(m, key) ==
  \E i \in 1..Len(m.key_hashes) : m.key_hashes[i] = BM_hash_key(key)

(* BiMap::maybe_contains_value *)
BM_maybe_contains_value(m, value) ==
  \E i \in 1..Len(m.value_hashes) : m.value_hashes[i] = BM_hash_value(value)

(* BiMap::find_value *)
BM_find_value(m, key) ==
  LET r == BM_index_of_key(m, key) IN
  IF r = UB \/ r = None THEN r
  ELSE IF r.val < Len(m.values) THEN Some(m.values[r.val + 1]) ELSE UB

(* Index<&EqK> for BiMap: find_value(key).expect(..) *)
BM_index(m, key) == Expect(BM_find_value(m, key))

(* BiMap::find_key *)
BM_find_key(m, value) ==
  LET r == BM_index_of_value(m, value) IN
  IF r = UB \/ r = None THEN r
  ELSE IF r.val < Len(m.keys) THEN Some(m.keys[r.val + 1]) ELSE UB

(* Mutant of the push of an insert: the entry is put in front. *)
BM_push_Front(m, key, value) ==
  [keys |-> <<key>> \o m.keys,
   values |-> <<value>> \o m.values,
   key_hashes |-> <<BM_hash_key(key)>> \o m.key_hashes,
   value_hashes |-> <<BM_hash_value(value)>> \o m.value_hashes]

(* The four pushes that end every BiMap insert. *)
BM_push(m, key, value) ==
  [keys |-> Append(m.keys, key),
   values |-> Append(m.values, value),
   key_hashes |-> Append(m.key_hashes, BM_hash_key(key)),
   value_hashes |-> Append(m.value_hashes, BM_hash_value(value))]

(* BiMap::insert_at_key *)
BM_insert_at_key(m, key, value) ==
  LET r == BM_scan_key(m, BM_hash_key(key), key, 0) IN
  IF r = UB THEN Res(m, UB)
  ELSE IF r # None
       THEN IF r.val < Len(m.value_hashes) /\ r.val < Len(m.values)
            THEN Res([m EXCEPT !.value_hashes[r.val + 1] = BM_hash_value(value),
                               !.values[r.val + 1] = value],
                     Some(m.values[r.val + 1]))
            ELSE Res(m, UB)
       ELSE Res(BM_push(m, key, value), None)

(* BiMap::insert_at_value *)
BM_insert_at_value(m, value, key) ==
  LET r == BM_scan_value(m, BM_hash_value(value), value, 0) IN
  IF r = UB THEN Res(m, UB)
  ELSE IF r # None
       THEN IF r.val < Len(m.key_hashes) /\ r.val < Len(m.keys)
            THEN Res([m EXCEPT !.key_hashes[r.val + 1] = BM_hash_key(key),
                               !.keys[r.val + 1] = key],
                     Some(m.keys[r.val + 1]))
            ELSE Res(m, UB)
       ELSE Res(BM_push(m, key, value), None)

(* BiMap::insert_unique_key *)
BM_insert_unique_key(m, key, value) ==
  LET r == BM_index_of_hashed_key(m, BM_hash_key(key), key) IN
  IF r = UB THEN Res(m, UB)
  ELSE IF r # None THEN Res(m, Some(<<key, value>>))
       ELSE Res(BM_push(m, key, value), None)

(* BiMap::insert_unique_value *)
BM_insert_unique_value(m, key, value) ==
  LET r == BM_index_of_hashed_value(m, BM_hash_value(value), value) IN
  IF r = UB THEN Res(m, UB)
  ELSE IF r # None THEN Res(m, Some(<<key, value>>))
       ELSE Res(BM_push(m, key, value), None)

(* BiMap::remove_by_index: one swap_remove of each of the four arrays. *)
BM_remove_by_index(m, idx) ==
  IF idx < BM_len(m)
  THEN IF idx >= Len(m.key_hashes) THEN Res(m, Panic)
       ELSE LET m1 == [m EXCEPT !.key_hashes = SwapRemove(@, idx)] IN
            IF idx >= Len(m1.value_hashes) THEN Res(m1, Panic)
            ELSE LET m2 == [m1 EXCEPT !.value_hashes = SwapRemove(@, idx)] IN
                 IF idx >= Len(m2.keys) THEN Res(m2, Panic)
                 ELSE Res([m2 EXCEPT !.keys = SwapRemove(@, idx),
                                     !.values = SwapRemove(@, idx)],
                          Some(<<m.keys[idx + 1], m.values[idx + 1]>>))
  ELSE Res(m, None)

(* BiMap::remove_by_key *)
BM_remove_by_key(m, key) ==
  LET r == BM_index_of_key(m, key) IN
  IF r = UB \/ r = None THEN Res(m, r) ELSE BM_remove_by_index(m, r.val)

(* BiMap::remove_by_value *)
BM_remove_by_value(m, value) ==
  LET r == BM_index_of_value(m, value) IN
  IF r = UB \/ r = None THEN Res(m, r) ELSE BM_remove_by_index(m, r.val)

(* BiMap::pop: key_hashes.pop(), keys.pop().unwrap(),                      *)
(* values.pop().unwrap(); value_hashes is not popped.                      *)
BM_pop(m) ==
  IF BM_len(m) # 0
  THEN LET m1 == [m EXCEPT !.key_hashes = IF @ = <<>> THEN @ ELSE PopLast(@)] IN
       IF m1.keys = <<>> THEN Res(m1, Panic)
       ELSE Res([m1 EXCEPT !.keys = PopLast(@), !.values = PopLast(@)],
                Some(<<m.keys[Len(m.keys)], m.values[Len(m.values)]>>))
  ELSE Res(m, None)

(* BiMap::merge_discard from pair i of other. *)
RECURSIVE BM_merge_discard_from(_, _, _)
BM_merge_discard_from(m, other, i) ==
  IF i >= Len(other.keys) THEN Res(m, Unit)
  ELSE LET r == BM_insert_unique_key(m, other.keys[i + 1], other.values[i + 1]) IN
       IF Failed(r.ret) THEN r ELSE BM_merge_discard_from(r.m, other, i + 1)

(* BiMap::merge_discard *)
BM_merge_discard(m, other) == BM_merge_discard_from(m, other, 0)

(* BiMap::merge_discard_to_vec from pair i of other, discard so far. *)
RECURSIVE BM_merge_discard_to_vec_from(_, _, _, _)
BM_merge_discard_to_vec_from(m, other, i, discard) ==
  IF i >= Len(other.keys) THEN Res(m, Ret(discard))
  ELSE LET r == BM_insert_unique_key(m, other.keys[i + 1], other.values[i + 1]) IN
       IF Failed(r.ret) THEN r
       ELSE BM_merge_discard_to_vec_from(r.m, other, i + 1,
              IF r.ret # None THEN Append(discard, r.ret.val) ELSE discard)

(* BiMap::merge_discard_to_vec *)
BM_merge_discard_to_vec(m, other) == BM_merge_discard_to_vec_from(m, other, 0, <<>>)

(* BiMap::merge_overwrite from pair i of other. *)
RECURSIVE BM_merge_overwrite_from(_, _, _)
BM_merge_overwrite_from(m, other, i) ==
  IF i >= Len(other.keys) THEN Res(m, Unit)
  ELSE LET r == BM_insert_at_key(m, other.keys[i + 1], other.values[i + 1]) IN
       IF Failed(r.ret) THEN r ELSE BM_merge_overwrite_from(r.m, other, i + 1)

(* BiMap::merge_overwrite *)
BM_merge_overwrite(m, other) == BM_merge_overwrite_from(m, other, 0)

(* FromIterator for BiMap: insert_at_key of each pair in turn. *)
RECURSIVE BM_from_iter(_)
BM_from_iter(pairs) ==
  IF pairs = <<>> THEN BM_new
  ELSE BM_insert_at_key(BM_from_iter(PopLast(pairs)),
                        pairs[Len(pairs)][1], pairs[Len(pairs)][2]).m

(* The keys given to the BiMap on its own. *)
BKeys == {KeyData(0, 0), KeyData(1, 0), KeyData(0, 1)}

(* The BiMaps given to a merge: those collected from up to MaxOtherBi      *)
(* pairs.                                                                  *)
OtherBiMaps ==
  {BM_from_iter(s) : s \in UNION {[1..n -> BKeys \X Names] : n \in 0..MaxOtherBi}}

(***************************************************************************)
(* NamedSlotMap (src/src/collections/named_slot_map.rs).                   *)
(***************************************************************************)

Ok(v) == [tag |-> "Ok", val |-> v]
Err(v) == [tag |-> "Err", val |-> v]

NSM_new == [slot_map |-> SM_new, id_bindings |-> BM_new]

NSM_len(n) == SM_len(n.slot_map)

(* What NamedSlotMap::contains_id tests: id_bindings.contains_value(id) is *)
(* index_of_value(id).is_some().                                           *)
NSM_id_index(n, id) == BM_index_of_value(n.id_bindings, id)

(* NamedSlotMap::contains_id, with UB passed on. *)
NSM_contains_id(n, id) ==
  LET r == NSM_id_index(n, id) IN IF r = UB THEN UB ELSE r # None

(* NamedSlotMap::maybe_contains_id *)
NSM_maybe_contains_id(n, id) == BM_maybe_contains_value(n.id_bindings, id)

(* NamedSlotMap::find_key *)
NSM_find_key(n, id) == BM_find_key(n.id_bindings, id)

(* NamedSlotMap::find_id *)
NSM_find_id(n, key) == BM_find_value(n.id_bindings, key)

(* NamedSlotMap::get *)
NSM_get(n, key) == SM_get(n.slot_map, key)

(* Index<K> for NamedSlotMap: get(key).expect(..) *)
NSM_index_key(n, key) == Expect(NSM_get(n, key))

(* Index<&str> for NamedSlotMap: get(find_key(id).expect(..)).unwrap() *)
NSM_index_id(n, id) ==
  LET k == Expect(NSM_find_key(n, id)) IN
  IF Failed(k) THEN k ELSE Expect(NSM_get(n, k.val))

(* The dense position SlotMap::get_unchecked / get_unchecked_mut reads:    *)
(* neither the slot index nor the generation is checked.                   *)
SM_unchecked_index(m, key) ==
  IF key.idx < Len(m.slots)
  THEN IF m.slots[key.idx + 1].idx < Len(m.values)
       THEN Some(m.slots[key.idx + 1].idx)
       ELSE UB
  ELSE UB

(* BiMap::iter iterated to the end: PairIter::next yields the pair at idx, *)
(* read unchecked, while idx < len().                                      *)
BM_iter(m) ==
  [i \in 1..BM_len(m) |->
     IF i <= Len(m.keys) /\ i <= Len(m.values)
     THEN Some(<<m.keys[i], m.values[i]>>) ELSE UB]

(* Mutant of TriIter::next: the slot index of the key is taken for the     *)
(* dense position.                                                         *)
TriIter_next_BySlotIdx(n, pair) ==
  IF pair = UB THEN UB
  ELSE IF pair.val[1].idx < Len(n.slot_map.values)
       THEN Some(<<pair.val[2], pair.val[1], n.slot_map.values[pair.val[1].idx + 1]>>)
       ELSE UB

(* TriIter::next on the pair (key, id) its inner BiMap iterator yields:    *)
(* the value is slot_map.get_unchecked(key).                               *)
TriIter_next(n, pair) ==
  IF pair = UB THEN UB
  ELSE LET p == SM_unchecked_index(n.slot_map, pair.val[1]) IN
       IF p = UB THEN UB
       ELSE Some(<<pair.val[2], pair.val[1], n.slot_map.values[p.val + 1]>>)

(* IDIter::next: as TriIter::next, without the key in the item. *)
IDIter_next(n, pair) ==
  IF pair = UB THEN UB
  ELSE LET p == SM_unchecked_index(n.slot_map, pair.val[1]) IN
       IF p = UB THEN UB
       ELSE Some(<<pair.val[2], n.slot_map.values[p.val + 1]>>)

(* NamedSlotMap::tri_iter and id_value_iter, iterated to the end. *)
NSM_tri_iter(n) ==
  [i \in 1..Len(BM_iter(n.id_bindings)) |-> TriIter_next(n, BM_iter(n.id_bindings)[i])]

NSM_id_value_iter(n) ==
  [i \in 1..Len(BM_iter(n.id_bindings)) |-> IDIter_next(n, BM_iter(n.id_bindings)[i])]

(* NamedSlotMap::find_id_mut: the index of the name the returned           *)
(* &mut String refers to (BiMap::find_value_mut).                          *)
NSM_find_id_mut(n, key) ==
  LET r == BM_index_of_key(n.id_bindings, key) IN
  IF r = UB \/ r = None THEN r
  ELSE IF r.val < Len(n.id_bindings.values) THEN Some(r.val) ELSE UB

(* NamedSlotMap::ids_mut: the indices of the names in the returned         *)
(* &mut [String] (BiMap::values_mut).                                      *)
NSM_ids_mut(n) == 0..(Len(n.id_bindings.values) - 1)

(* id_value_iter_mut and tri_iter_mut: the indices of the names their      *)
(* items refer to mutably (PairIterMut of the BiMap, idx < len()).         *)
NSM_iter_mut_ids(n) == 0..(BM_len(n.id_bindings) - 1)

(* An assignment through a &mut String obtained from the map: the name at  *)
(* index i is overwritten, nothing else is touched.                        *)
NSM_assign_id(n, i, id) == [n EXCEPT !.id_bindings.values[i + 1] = id]

(* Mutant of the unbound branch: the value is stored, the id is not bound. *)
NSM_bind_new_NoBinding(n, id, value) ==
  LET a == SM_insert(n.slot_map, value)
  IN [m |-> [slot_map |-> a.sm, id_bindings |-> n.id_bindings],
      ret |-> Some(a.key)]

(* The branch of the inserts for an unbound id: SlotMap::insert, then      *)
(* id_bindings.insert_at_value(id, new_key).  Yields the map and the key.  *)
NSM_bind_new(n, id, value) ==
  LET a == SM_insert(n.slot_map, value)
      b == BM_insert_at_value(n.id_bindings, id, a.key)
  IN [m |-> [slot_map |-> a.sm, id_bindings |-> b.m],
      ret |-> IF Failed(b.ret) THEN b.ret ELSE Some(a.key)]

(* Mutant of insert: a bound id is not looked for, a new slot is always    *)
(* acquired and bound.                                                     *)
NSM_insert_AlwaysNew(n, id, value) ==
  LET b == NSM_bind_new(n, id, value) IN
  IF Failed(b.ret) THEN b ELSE Res(b.m, Ret(<<b.ret.val, None>>))

(* NamedSlotMap::insert *)
NSM_insert(n, id, value) ==
  LET r == BM_find_key(n.id_bindings, id) IN
  IF r = UB THEN Res(n, UB)
  ELSE IF r # None
       THEN LET i == SM_unchecked_index(n.slot_map, r.val) IN
            IF i = UB THEN Res(n, UB)
            ELSE Res([n EXCEPT !.slot_map.values[i.val + 1] = value],
                     Ret(<<r.val, Some(n.slot_map.values[i.val + 1])>>))
       ELSE LET b == NSM_bind_new(n, id, value) IN
            IF Failed(b.ret) THEN b ELSE Res(b.m, Ret(<<b.ret.val, None>>))

(* Mutant of insert_unique: under a bound id the stored value is replaced  *)
(* before the rejected value is returned.                                  *)
NSM_insert_unique_Overwrite(n, id, value) ==
  LET r == NSM_insert(n, id, value) IN
  IF Failed(r.ret) THEN r
  ELSE IF r.ret.val[2] # None THEN Res(r.m, Err(value))
       ELSE Res(r.m, Ok(r.ret.val[1]))

(* NamedSlotMap::insert_unique *)
NSM_insert_unique(n, id, value) ==
  LET c == NSM_id_index(n, id) IN
  IF c = UB THEN Res(n, UB)
  ELSE IF c # None THEN Res(n, Err(value))
       ELSE LET b == NSM_bind_new(n, id, value) IN
            IF Failed(b.ret) THEN b ELSE Res(b.m, Ok(b.ret.val))

(* The branch of the with_key inserts for an unbound id:                   *)
(* SlotMap::insert_with_key(f), then id_bindings.insert_at_value(id,       *)
(* new_key).  calls lists the keys the closure was called with.            *)
NSM_bind_new_with_key(n, id, f) ==
  LET a == SM_insert_with_key(n.slot_map, f)
      b == BM_insert_at_value(n.id_bindings, id, a.key)
  IN [m |-> [slot_map |-> a.sm, id_bindings |-> b.m],
      ret |-> IF Failed(b.ret) THEN b.ret ELSE Some(a.key),
      calls |-> <<a.arg>>]

(* Mutant of insert_with_key: under a bound id the closure is given the    *)
(* null key instead of the existing key.                                   *)
NSM_insert_with_key_NullKey(n, id, f) ==
  LET r == BM_find_key(n.id_bindings, id) IN
  IF r = UB THEN [m |-> n, ret |-> UB, calls |-> <<>>]
  ELSE IF r # None
       THEN LET i == SM_unchecked_index(n.slot_map, r.val) IN
            IF i = UB THEN [m |-> n, ret |-> UB, calls |-> <<>>]
            ELSE [m |-> [n EXCEPT !.slot_map.values[i.val + 1] = ApplyClosure(f, NULL)],
                  ret |-> Ret(<<r.val, Some(n.slot_map.values[i.val + 1])>>),
                  calls |-> <<NULL>>]
       ELSE LET b == NSM_bind_new_with_key(n, id, f) IN
            [m |-> b.m,
             ret |-> IF Failed(b.ret) THEN b.ret ELSE Ret(<<b.ret.val, None>>),
             calls |-> b.calls]

(* NamedSlotMap::insert_with_key: under a bound id                         *)
(* replace(existing_value, f(existing_key)), else the unbound branch.      *)
(* calls lists the keys the closure was called with.                       *)
NSM_insert_with_key(n, id, f) ==
  LET r == BM_find_key(n.id_bindings, id) IN
  IF r = UB THEN [m |-> n, ret |-> UB, calls |-> <<>>]
  ELSE IF r # None
       THEN LET i == SM_unchecked_index(n.slot_map, r.val) IN
            IF i = UB THEN [m |-> n, ret |-> UB, calls |-> <<>>]
            ELSE [m |-> [n EXCEPT !.slot_map.values[i.val + 1] = ApplyClosure(f, r.val)],
                  ret |-> Ret(<<r.val, Some(n.slot_map.values[i.val + 1])>>),
                  calls |-> <<r.val>>]
       ELSE LET b == NSM_bind_new_with_key(n, id, f) IN
            [m |-> b.m,
             ret |-> IF Failed(b.ret) THEN b.ret ELSE Ret(<<b.ret.val, None>>),
             calls |-> b.calls]

(* NamedSlotMap::insert_unique_with_key: under a bound id None is returned *)
(* before the closure is used, else the unbound branch.                    *)
NSM_insert_unique_with_key(n, id, f) ==
  LET c == NSM_id_index(n, id) IN
  IF c = UB THEN [m |-> n, ret |-> UB, calls |-> <<>>]
  ELSE IF c # None THEN [m |-> n, ret |-> None, calls |-> <<>>]
       ELSE NSM_bind_new_with_key(n, id, f)

(* NamedSlotMap::insert_with_key when the closure panics: under a bound id *)
(* f(existing_key) unwinds before replace; under an unbound id             *)
(* slot_map.insert_with_key unwinds and insert_at_value is not reached.    *)
NSM_insert_with_key_unwind(n, id) ==
  LET r == BM_find_key(n.id_bindings, id) IN
  IF r = UB THEN Res(n, UB)
  ELSE IF r # None
       THEN IF SM_unchecked_index(n.slot_map, r.val) = UB THEN Res(n, UB)
            ELSE Res(n, Panic)
       ELSE Res([n EXCEPT !.slot_map = SM_insert_with_key_unwind(n.slot_map).sm], Panic)

(* NamedSlotMap::insert_unique_with_key when the closure panics: the       *)
(* closure only runs under an unbound id.                                  *)
NSM_insert_unique_with_key_unwind(n, id) ==
  LET c == NSM_id_index(n, id) IN
  IF c = UB THEN Res(n, UB)
  ELSE IF c # None THEN Res(n, None)
       ELSE Res([n EXCEPT !.slot_map = SM_insert_with_key_unwind(n.slot_map).sm], Panic)

(* Mutant of remove: the last binding is removed, not the one of the key.  *)
NSM_remove_LastBinding(n, key, b) ==
  LET r == SM_remove(n.slot_map, key, b) IN
  IF r.ret = Panic THEN Res([n EXCEPT !.slot_map = r.sm], Panic)
  ELSE IF r.ret # None
       THEN LET q == BM_remove_by_index(n.id_bindings, BM_len(n.id_bindings) - 1) IN
            IF q.ret = UB THEN Res([slot_map |-> r.sm, id_bindings |-> q.m], UB)
            ELSE IF q.ret = None \/ q.ret = Panic
                 THEN Res([slot_map |-> r.sm, id_bindings |-> q.m], Panic)
                 ELSE Res([slot_map |-> r.sm, id_bindings |-> q.m],
                          Some(<<q.ret.val[2], r.ret.val>>))
       ELSE Res(n, None)

(* Mutant of remove: the binding of the removed key is kept. *)
NSM_remove_KeepBinding(n, key, b) ==
  LET r == SM_remove(n.slot_map, key, b) IN
  IF r.ret = Panic THEN Res([n EXCEPT !.slot_map = r.sm], Panic)
  ELSE IF r.ret # None
       THEN LET q == BM_find_value(n.id_bindings, key) IN
            IF q = UB THEN Res([n EXCEPT !.slot_map = r.sm], UB)
            ELSE IF q = None THEN Res([n EXCEPT !.slot_map = r.sm], Panic)
                 ELSE Res([n EXCEPT !.slot_map = r.sm], Some(<<q.val, r.ret.val>>))
       ELSE Res(n, None)

(* NamedSlotMap::remove under build b: SlotMap::remove, then               *)
(* id_bindings.remove_by_key(&key).unwrap(), which panics on None.         *)
NSM_remove(n, key, b) ==
  LET r == SM_remove(n.slot_map, key, b) IN
  IF r.ret = Panic THEN Res([n EXCEPT !.slot_map = r.sm], Panic)
  ELSE IF r.ret # None
       THEN LET q == BM_remove_by_key(n.id_bindings, key) IN
            IF q.ret = UB THEN Res([slot_map |-> r.sm, id_bindings |-> q.m], UB)
            ELSE IF q.ret = None \/ q.ret = Panic
                 THEN Res([slot_map |-> r.sm, id_bindings |-> q.m], Panic)
                 ELSE Res([slot_map |-> r.sm, id_bindings |-> q.m],
                          Some(<<q.ret.val[2], r.ret.val>>))
       ELSE Res(n, None)

(***************************************************************************)
(* Escaping (src/src/un_escape_str.rs).  A str is the sequence of its      *)
(* chars, a char its code point.                                           *)
(***************************************************************************)

(* char::to_digit(16); -1 stands for None. *)
to_digit(c) ==
  IF c \in 48..57 THEN c - 48
  ELSE IF c \in 97..102 THEN c - 87
  ELSE IF c \in 65..70 THEN c - 55
  ELSE -1

RECURSIVE HexFold(_, _)
HexFold(acc, digits) ==
  IF digits = <<>> THEN acc
  ELSE HexFold(acc * 16 + to_digit(Head(digits)), Tail(digits))

(* char::from_u32 is None on a surrogate. *)
IsChar(v) == v \notin 55296..57343

(* unescape_str_into: the chars of source pushed onto dest, an escape      *)
(* sequence replaced by its char.  A backslash at the end returns; a \u    *)
(* followed by a char that is no hex digit, or naming a surrogate, panics  *)
(* with dest as far as it got.                                             *)
RECURSIVE unescape_str_into(_, _)
unescape_str_into(source, dest) ==
  IF source = <<>> THEN [text |-> dest, panic |-> FALSE]
  ELSE IF Head(source) # 92 THEN unescape_str_into(Tail(source), Append(dest, Head(source)))
  ELSE IF Len(source) = 1 THEN [text |-> dest, panic |-> FALSE]
  ELSE LET e == source[2]
           rest == SubSeq(source, 3, Len(source))
       IN
       IF e = 117
       THEN LET k == IF Len(rest) < 4 THEN Len(rest) ELSE 4
                digits == SubSeq(rest, 1, k)
                value == HexFold(0, digits)
            IN IF (\E i \in 1..k : to_digit(digits[i]) = -1) \/ ~IsChar(value)
               THEN [text |-> dest, panic |-> TRUE]
               ELSE unescape_str_into(SubSeq(rest, k + 1, Len(rest)), Append(dest, value))
       ELSE LET ch == CASE e = 98 -> 8
                        [] e = 102 -> 12
                        [] e = 110 -> 10
                        [] e = 114 -> 13
                        [] e = 116 -> 9
                        [] OTHER -> e
            IN unescape_str_into(rest, Append(dest, ch))

(* One hex digit of the \uXXXX form: '0'..'9', 'a'..'f'. *)
HexDigit(digit) == IF digit < 10 THEN 48 + digit ELSE 97 + digit - 10

(* What escape_str_into pushes for one char. *)
escape_char(ch) ==
  CASE ch = 92 -> <<92, 92>>
    [] ch = 8 -> <<92, 98>>
    [] ch = 12 -> <<92, 102>>
    [] ch = 39 -> <<92, 39>>
    [] ch = 34 -> <<92, 34>>
    [] ch = 10 -> <<92, 110>>
    [] ch = 13 -> <<92, 114>>
    [] ch = 9 -> <<92, 116>>
    [] OTHER -> IF ch >= 127
                THEN <<92, 117, HexDigit((ch \div 4096) % 16), HexDigit((ch \div 256) % 16),
                       HexDigit((ch \div 16) % 16), HexDigit(ch % 16)>>
                ELSE <<ch>>

RECURSIVE escape_str_into(_, _)
escape_str_into(source, dest) ==
  IF source = <<>> THEN dest
  ELSE escape_str_into(Tail(source), dest \o escape_char(Head(source)))

(***************************************************************************)
(* Thread local temporary strings (src/src/temp.rs).                       *)
(***************************************************************************)

(* char::to_lowercase / char::to_uppercase on the chars of the model: the  *)
(* ASCII letters, and one char of each kind that maps to two chars.        *)
char_to_lowercase(c) ==
  IF c \in 65..90 THEN <<c + 32>> ELSE IF c = 304 THEN <<105, 775>> ELSE <<c>>

char_to_uppercase(c) ==
  IF c \in 97..122 THEN <<c - 32>> ELSE IF c = 223 THEN <<83, 83>> ELSE <<c>>

RECURSIVE PushLowercase(_, _)
PushLowercase(s, buff) ==
  IF s = <<>> THEN buff ELSE PushLowercase(Tail(s), buff \o char_to_lowercase(Head(s)))

RECURSIVE PushUppercase(_, _)
PushUppercase(s, buff) ==
  IF s = <<>> THEN buff ELSE PushUppercase(Tail(s), buff \o char_to_uppercase(Head(s)))

(* The four functions, each with a thread_local String of its own. *)
Fns == {"temp.to_lowercase", "temp.to_uppercase", "temp.escape_str", "temp.unescape_str"}

(* What a function writes into its cleared buffer for the str s. *)
Converted(f, s) ==
  CASE f = "temp.to_lowercase" -> [text |-> PushLowercase(s, <<>>), panic |-> FALSE]
    [] f = "temp.to_uppercase" -> [text |-> PushUppercase(s, <<>>), panic |-> FALSE]
    [] f = "temp.escape_str" -> [text |-> escape_str_into(s, <<>>), panic |-> FALSE]
    [] f = "temp.unescape_str" -> unescape_str_into(s, <<>>)

(* The capacity the call needs: the chars pushed, and for the two escaping *)
(* functions at least dest.reserve(source.len()).                          *)
Needed(f, s) ==
  LET n == Len(Converted(f, s).text) IN
  IF f \in {"temp.escape_str", "temp.unescape_str"} /\ Len(s) > n THEN Len(s) ELSE n

Threads == 1..MaxThreads

MainThread == 1

Addrs == 1..MaxAddrs

(* "Aß", a backslash followed by n, and a \u followed by z. *)
Inputs == {<<65, 223>>, <<92, 110>>, <<92, 117, 122>>}

(* String::new(): no allocation. *)
NoBuf == [ptr |-> 0, cap |-> 0, len |-> 0]

(* The blocks a buffer can be in after growing to need: where it is (the   *)
(* allocator extends the block), or any free block (the allocator moves    *)
(* it); a fresh buffer is given any free block.  Without growth it stays.  *)
Places(h, b, need) ==
  IF need <= b.cap THEN {b.ptr}
  ELSE {a \in Addrs : h[a].free} \cup (IF b.ptr = 0 THEN {} ELSE {b.ptr})

(* buff.clear() and the pushes: text over the start of the block, what was *)
(* in the block beyond it stays.                                           *)
Written(data, text) == text \o SubSeq(data, Len(text) + 1, Len(data))

(* The heap after buffer b took its place at block a and text was written. *)
HeapAfter(h, b, a, text) ==
  IF a = 0 THEN h
  ELSE [x \in Addrs |->
          IF x = a THEN [free |-> FALSE, data |-> Written(h[a].data, text)]
          ELSE IF x = b.ptr THEN [free |-> TRUE, data |-> h[x].data]
          ELSE h[x]]

(* The end of a thread: its thread_local Strings are dropped, their blocks *)
(* go back to the allocator with what they hold.                           *)
HeapAtExit(h, bs) ==
  [x \in Addrs |->
     IF \E f \in Fns : bs[f].ptr = x THEN [free |-> TRUE, data |-> h[x].data] ELSE h[x]]

(* Reading a &'static str: len chars at ptr, whatever is there now. *)
ReadStr(h, r) == IF r.len = 0 THEN <<>> ELSE SubSeq(h[r.ptr].data, 1, r.len)

(***************************************************************************)
(* The SlotMap as a state machine.                                         *)
(***************************************************************************)

Call(op, key, val, ret) == [op |-> op, key |-> key, val |-> val, ret |-> ret]

(* The keys a lookup can be given: any slot index up to one past the table *)
(* bound, with any generation a slot can have.                             *)
ProbeKeys == {KeyData(i, g) : i \in 0..MaxSlots, g \in 0..MaxFrees}

(* The keys a lookup of the NamedSlotMap can be given. *)
NsmProbeKeys == {KeyData(i, g) : i \in 0..NsmSlots, g \in 0..NsmFrees}

(* The keys a caller holds: those the arena issued, and Key::NULL.         *)
HeldKeys == {p.key : p \in hist.live} \cup hist.dead \cup {NULL}

(* An insert can proceed within the bound n on the slot table. *)
SM_room(m, n) == m.freelist # None \/ Len(m.slots) < n

(* The number of successful removes so far: without a wrap, the sum of the *)
(* generations of the slots.                                               *)
RECURSIVE SumGen(_)
SumGen(slots) ==
  IF slots = <<>> THEN 0 ELSE slots[Len(slots)].gen + SumGen(PopLast(slots))

InitCommon ==
  /\ sm = SM_new
  /\ hist = [live |-> {}, dead |-> {}, freed |-> <<>>]
  /\ map = M_new
  /\ bimap = BM_new
  /\ nsm = NSM_new
  /\ nhist = {}
  /\ last = Call("new", NULL, "x", None)
  /\ halt = "run"
  /\ threads = [t \in Threads |-> IF t = MainThread THEN "live" ELSE "new"]
  /\ heap = [a \in Addrs |-> [free |-> TRUE, data |-> <<>>]]
  /\ buffs = [t \in Threads |-> [f \in Fns |-> NoBuf]]
  /\ results = [t \in Threads |-> [f \in Fns |-> None]]

Init == InitCommon /\ build = "release"

InitWrap == InitCommon /\ build \in {"debug", "release"}

SlotMapInsertAs(op, value, n) ==
  /\ halt = "run"
  /\ SM_room(sm, n)
  /\ LET r == SM_insert(sm, value) IN
     /\ sm' = r.sm
     /\ hist' = [hist EXCEPT !.live = @ \cup {[key |-> r.key, value |-> value]},
                             !.freed = IF @ = <<>> THEN @ ELSE Tail(@)]
     /\ last' = Call(op, r.key, value, Some(r.key))
  /\ UNCHANGED <<build, halt, map, bimap, nsm, nhist, tempVars>>

SlotMapInsert == \E value \in Vals : SlotMapInsertAs("insert", value, MaxSlots)

SlotMapInsertWithKeyAs(f, n) ==
  /\ halt = "run"
  /\ SM_room(sm, n)
  /\ LET r == SM_insert_with_key(sm, f) IN
     /\ sm' = r.sm
     /\ hist' = [hist EXCEPT !.live = @ \cup {[key |-> r.key, value |-> r.value]},
                             !.freed = IF @ = <<>> THEN @ ELSE Tail(@)]
     /\ last' = Call("insert_with_key", r.arg, r.value, Some(r.key))
  /\ UNCHANGED <<build, halt, map, bimap, nsm, nhist, tempVars>>

SlotMapInsertWithKey == \E f \in Closures : SlotMapInsertWithKeyAs(f, MaxSlots)

SlotMapRemoveOf(key) ==
  /\ halt = "run"
  /\ LET r == SM_remove(sm, key, build) IN
     /\ sm' = r.sm
     /\ hist' = IF r.ret \in {None, Panic} THEN hist
                ELSE [live |-> {p \in hist.live : p.key # key},
                      dead |-> hist.dead \cup {key},
                      freed |-> Append(hist.freed, key.idx)]
     /\ last' = Call("remove", key, "x", r.ret)
     /\ halt' = IF r.ret = Panic THEN "panic" ELSE "run"
  /\ UNCHANGED <<build, map, bimap, nsm, nhist, tempVars>>

(* remove, capped: at most MaxFrees removes succeed, which is below the    *)
(* number of frees at which a generation counter wraps.                    *)
SlotMapRemove ==
  \E key \in HeldKeys :
    /\ SM_contains_key(sm, key) => SumGen(sm.slots) < MaxFrees
    /\ SlotMapRemoveOf(key)

NextSM == SlotMapInsert \/ SlotMapInsertWithKey \/ SlotMapRemove

SpecSM == Init /\ [][NextSM]_vars

(* The arena with a small slot table and no cap on the removes: the        *)
(* generation counter of a slot reaches its maximum.                       *)
SlotMapInsertWrap == \E value \in Vals : SlotMapInsertAs("insert", value, WrapSlots)

SlotMapInsertWithKeyWrap == \E f \in Closures : SlotMapInsertWithKeyAs(f, WrapSlots)

SlotMapRemoveWrap == \E key \in HeldKeys : SlotMapRemoveOf(key)

NextSMWrap == SlotMapInsertWrap \/ SlotMapInsertWithKeyWrap \/ SlotMapRemoveWrap

SpecSMWrap == InitWrap /\ [][NextSMWrap]_vars

(***************************************************************************)
(* The Map as a state machine.                                             *)
(***************************************************************************)

(* The step of a Map call with result r: a panic or an undefined read      *)
(* ends the run.                                                           *)
MapStep(op, key, val, r) ==
  /\ map' = r.m
  /\ last' = Call(op, key, val, r.ret)
  /\ halt' = IF r.ret = Panic THEN "panic" ELSE IF r.ret = UB THEN "ub" ELSE "run"
  /\ UNCHANGED <<sm, hist, build, bimap, nsm, nhist, tempVars>>

(* The longest array of the Map: the bound on growth. *)
M_longest(m) ==
  IF Len(m.keys) >= Len(m.values) /\ Len(m.keys) >= Len(m.hashes) THEN Len(m.keys)
  ELSE IF Len(m.values) >= Len(m.hashes) THEN Len(m.values) ELSE Len(m.hashes)

MapInsert ==
  \E key \in MapKeys, value \in Vals :
    /\ halt = "run" /\ M_longest(map) < MaxLen
    /\ MapStep("map.insert", key, value, M_insert(map, key, value))

MapInsertUniqueKey ==
  \E key \in MapKeys, value \in Vals :
    /\ halt = "run" /\ M_longest(map) < MaxLen
    /\ MapStep("map.insert_unique_key", key, value, M_insert_unique_key(map, key, value))

MapInsertUniqueValue ==
  \E key \in MapKeys, value \in Vals :
    /\ halt = "run" /\ M_longest(map) < MaxLen
    /\ MapStep("map.insert_unique_value", key, value, M_insert_unique_value(map, key, value))

MapRemoveByIndex ==
  \E idx \in 0..MaxLen :
    /\ halt = "run"
    /\ MapStep("map.remove_by_index", idx, "x", M_remove_by_index(map, idx))

MapRemoveByKey ==
  \E key \in MapKeys :
    /\ halt = "run"
    /\ MapStep("map.remove_by_key", key, "x", M_remove_by_key(map, key))

MapRemoveByValue ==
  \E value \in Vals :
    /\ halt = "run"
    /\ MapStep("map.remove_by_value", 0, value, M_remove_by_value(map, value))

MapPop ==
  /\ halt = "run"
  /\ MapStep("map.pop", 0, "x", M_pop(map))

MapMergeDiscard ==
  \E other \in OtherMaps :
    /\ halt = "run" /\ M_longest(map) + M_len(other) <= MaxLen
    /\ MapStep("map.merge_discard", 0, "x", M_merge_discard(map, other))

MapMergeDiscardToVec ==
  \E other \in OtherMaps :
    /\ halt = "run" /\ M_longest(map) + M_len(other) <= MaxLen
    /\ MapStep("map.merge_discard_to_vec", 0, "x", M_merge_discard_to_vec(map, other))

MapMergeOverwrite ==
  \E other \in OtherMaps :
    /\ halt = "run" /\ M_longest(map) + M_len(other) <= MaxLen
    /\ MapStep("map.merge_overwrite", 0, "x", M_merge_overwrite(map, other))

NextMap ==
  \/ MapInsert \/ MapInsertUniqueKey \/ MapInsertUniqueValue
  \/ MapRemoveByIndex \/ MapRemoveByKey \/ MapRemoveByValue \/ MapPop
  \/ MapMergeDiscard \/ MapMergeDiscardToVec \/ MapMergeOverwrite

SpecMap == Init /\ [][NextMap]_vars

(***************************************************************************)
(* The BiMap as a state machine.                                           *)
(***************************************************************************)

BiMapStep(op, key, val, r) ==
  /\ bimap' = r.m
  /\ last' = Call(op, key, val, r.ret)
  /\ halt' = IF r.ret = Panic THEN "panic" ELSE IF r.ret = UB THEN "ub" ELSE "run"
  /\ UNCHANGED <<sm, hist, build, map, nsm, nhist, tempVars>>

(* The longest array of the BiMap is value_hashes (pop leaves it alone):   *)
(* the bound on growth.                                                    *)
BM_longest(m) ==
  IF Len(m.value_hashes) >= Len(m.values) THEN Len(m.value_hashes) ELSE Len(m.values)

BiMapInsertAtKey ==
  \E key \in BKeys, value \in Names :
    /\ halt = "run" /\ BM_longest(bimap) < MaxLenBi
    /\ BiMapStep("bimap.insert_at_key", key, value, BM_insert_at_key(bimap, key, value))

BiMapInsertAtValue ==
  \E key \in BKeys, value \in Names :
    /\ halt = "run" /\ BM_longest(bimap) < MaxLenBi
    /\ BiMapStep("bimap.insert_at_value", key, value, BM_insert_at_value(bimap, value, key))

BiMapInsertUniqueKey ==
  \E key \in BKeys, value \in Names :
    /\ halt = "run" /\ BM_longest(bimap) < MaxLenBi
    /\ BiMapStep("bimap.insert_unique_key", key, value,
                 BM_insert_unique_key(bimap, key, value))

BiMapInsertUniqueValue ==
  \E key \in BKeys, value \in Names :
    /\ halt = "run" /\ BM_longest(bimap) < MaxLenBi
    /\ BiMapStep("bimap.insert_unique_value", key, value,
                 BM_insert_unique_value(bimap, key, value))

BiMapRemoveByIndex ==
  \E idx \in 0..MaxLenBi :
    /\ halt = "run"
    /\ BiMapStep("bimap.remove_by_index", idx, "a", BM_remove_by_index(bimap, idx))

BiMapRemoveByKey ==
  \E key \in BKeys :
    /\ halt = "run"
    /\ BiMapStep("bimap.remove_by_key", key, "a", BM_remove_by_key(bimap, key))

BiMapRemoveByValue ==
  \E value \in Names :
    /\ halt = "run"
    /\ BiMapStep("bimap.remove_by_value", NULL, value, BM_remove_by_value(bimap, value))

BiMapPop ==
  /\ halt = "run"
  /\ BiMapStep("bimap.pop", NULL, "a", BM_pop(bimap))

BiMapMergeDiscard ==
  \E other \in OtherBiMaps :
    /\ halt = "run" /\ BM_longest(bimap) + BM_len(other) <= MaxLenBi
    /\ BiMapStep("bimap.merge_discard", NULL, "a", BM_merge_discard(bimap, other))

BiMapMergeDiscardToVec ==
  \E other \in OtherBiMaps :
    /\ halt = "run" /\ BM_longest(bimap) + BM_len(other) <= MaxLenBi
    /\ BiMapStep("bimap.merge_discard_to_vec", NULL, "a",
                 BM_merge_discard_to_vec(bimap, other))

BiMapMergeOverwrite ==
  \E other \in OtherBiMaps :
    /\ halt = "run" /\ BM_longest(bimap) + BM_len(other) <= MaxLenBi
    /\ BiMapStep("bimap.merge_overwrite", NULL, "a", BM_merge_overwrite(bimap, other))

NextBiMap ==
  \/ BiMapInsertAtKey \/ BiMapInsertAtValue
  \/ BiMapInsertUniqueKey \/ BiMapInsertUniqueValue
  \/ BiMapRemoveByIndex \/ BiMapRemoveByKey \/ BiMapRemoveByValue \/ BiMapPop
  \/ BiMapMergeDiscard \/ BiMapMergeDiscardToVec \/ BiMapMergeOverwrite

SpecBiMap == Init /\ [][NextBiMap]_vars

(* The BiMap under interleavings of insert_at_key and insert_at_value only. *)
NextBiMapInserts == BiMapInsertAtKey \/ BiMapInsertAtValue

SpecBiMapInserts == Init /\ [][NextBiMapInserts]_vars

(***************************************************************************)
(* The NamedSlotMap as a state machine.                                    *)
(***************************************************************************)

(* The keys a caller of the NamedSlotMap holds: those issued, and NULL. *)
NsmHeldKeys == nhist \cup {NULL}

NsmStep(op, key, val, r) ==
  /\ nsm' = r.m
  /\ nhist' = nhist \cup {r.m.slot_map.keys[i] : i \in 1..Len(r.m.slot_map.keys)}
  /\ last' = Call(op, key, val, r.ret)
  /\ halt' = IF r.ret = Panic THEN "panic" ELSE IF r.ret = UB THEN "ub" ELSE "run"
  /\ UNCHANGED <<sm, hist, build, map, bimap, tempVars>>

(* An insert under id can proceed: the id is bound (no slot is acquired)   *)
(* or the slot table has room within its bound.                            *)
NsmRoom(id) ==
  NSM_find_key(nsm, id) # None \/ SM_room(nsm.slot_map, NsmSlots)

NsmInsert ==
  \E id \in Names, value \in Vals :
    /\ halt = "run" /\ NsmRoom(id)
    /\ NsmStep("nsm.insert", id, value, NSM_insert(nsm, id, value))

NsmInsertUnique ==
  \E id \in Names, value \in Vals :
    /\ halt = "run" /\ NsmRoom(id)
    /\ NsmStep("nsm.insert_unique", id, value, NSM_insert_unique(nsm, id, value))

(* The closures given to the with_key inserts of the NamedSlotMap: the two *)
(* whose value depends on the key they receive.                            *)
NsmClosures == {"by_gen", "by_idx"}

(* The with_key inserts record the closure they were given in last.val. *)
NsmInsertWithKey ==
  \E id \in Names, f \in NsmClosures :
    /\ halt = "run" /\ NsmRoom(id)
    /\ NsmStep("nsm.insert_with_key", id, f, NSM_insert_with_key(nsm, id, f))

NsmInsertUniqueWithKey ==
  \E id \in Names, f \in NsmClosures :
    /\ halt = "run" /\ NsmRoom(id)
    /\ NsmStep("nsm.insert_unique_with_key", id, f,
               NSM_insert_unique_with_key(nsm, id, f))

(* remove, capped: at most NsmFrees removes succeed. *)
NsmRemove ==
  \E key \in NsmHeldKeys :
    /\ halt = "run"
    /\ SM_contains_key(nsm.slot_map, key) => SumGen(nsm.slot_map.slots) < NsmFrees
    /\ NsmStep("nsm.remove", key, "x", NSM_remove(nsm, key, build))

(* A caller renames through find_id_mut(key). *)
NsmFindIdMut ==
  \E key \in NsmHeldKeys, id \in Names :
    /\ halt = "run"
    /\ LET r == NSM_find_id_mut(nsm, key) IN
       NsmStep("nsm.find_id_mut", key, id,
               IF r = UB \/ r = None THEN Res(nsm, r)
               ELSE Res(NSM_assign_id(nsm, r.val, id), Some(r.val)))

(* A caller renames through the slice of ids_mut(). *)
NsmIdsMut ==
  \E i \in NSM_ids_mut(nsm), id \in Names :
    /\ halt = "run"
    /\ NsmStep("nsm.ids_mut", i, id, Res(NSM_assign_id(nsm, i, id), Some(i)))

(* A caller renames through an item of id_value_iter_mut() or of           *)
(* tri_iter_mut().                                                         *)
NsmIterMut ==
  \E op \in {"nsm.id_value_iter_mut", "nsm.tri_iter_mut"} :
    \E i \in NSM_iter_mut_ids(nsm), id \in Names :
      /\ halt = "run"
      /\ i < Len(nsm.id_bindings.values)
      /\ NsmStep(op, i, id, Res(NSM_assign_id(nsm, i, id), Some(i)))

NextNSM ==
  \/ NsmInsert \/ NsmInsertUnique \/ NsmInsertWithKey \/ NsmInsertUniqueWithKey
  \/ NsmRemove

SpecNSM == Init /\ [][NextNSM]_vars

(***************************************************************************)
(* The two arenas with closures that panic.                                *)
(***************************************************************************)

SlotMapInsertWithKeyUnwind ==
  /\ halt = "run"
  /\ SM_room(sm, MaxSlots)
  /\ LET r == SM_insert_with_key_unwind(sm) IN
     /\ sm' = r.sm
     /\ last' = Call("insert_with_key.unwind", r.key, "x", r.ret)
  /\ halt' = "panic"
  /\ UNCHANGED <<hist, build, map, bimap, nsm, nhist, tempVars>>

NsmInsertWithKeyUnwind ==
  \E id \in Names :
    /\ halt = "run" /\ NsmRoom(id)
    /\ NsmStep("nsm.insert_with_key.unwind", id, "x", NSM_insert_with_key_unwind(nsm, id))

NsmInsertUniqueWithKeyUnwind ==
  \E id \in Names :
    /\ halt = "run" /\ NsmRoom(id)
    /\ NsmStep("nsm.insert_unique_with_key.unwind", id, "x",
               NSM_insert_unique_with_key_unwind(nsm, id))

OnSlotMapUnwind ==
  /\ nsm = NSM_new
  /\ NextSM \/ SlotMapInsertWithKeyUnwind

OnNamedSlotMapUnwind ==
  /\ sm = SM_new
  /\ NextNSM \/ NsmInsertWithKeyUnwind \/ NsmInsertUniqueWithKeyUnwind

NextUnwind == OnSlotMapUnwind \/ OnNamedSlotMapUnwind

SpecUnwind == Init /\ [][NextUnwind]_vars

(* The NamedSlotMap with the accessors that hand out mutable names. *)
NextNSMRename == NextNSM \/ NsmFindIdMut \/ NsmIdsMut \/ NsmIterMut

SpecNSMRename == Init /\ [][NextNSMRename]_vars

(***************************************************************************)
(* The Map, the BiMap and the NamedSlotMap side by side.  The containers   *)
(* share no state, so a behaviour works on one container at a time: the    *)
(* other two are as constructed.                                           *)
(***************************************************************************)

OnMap == bimap = BM_new /\ nsm = NSM_new /\ NextMap

OnBiMap == map = M_new /\ nsm = NSM_new /\ NextBiMap

OnNamedSlotMap == map = M_new /\ bimap = BM_new /\ NextNSM

NextCollections == OnMap \/ OnBiMap \/ OnNamedSlotMap

SpecCollections == Init /\ [][NextCollections]_vars

(* The four containers side by side, the SlotMap included: again one       *)
(* container at a time, the two arenas with at most IdxFrees removes.      *)
OnSlotMap ==
  /\ map = M_new /\ bimap = BM_new /\ nsm = NSM_new
  /\ NextSM
  /\ SumGen(sm'.slots) <= IdxFrees

OnNamedSlotMapFew ==
  /\ sm = SM_new
  /\ OnNamedSlotMap
  /\ SumGen(nsm'.slot_map.slots) <= IdxFrees

OnMapOrBiMap == sm = SM_new /\ (OnMap \/ OnBiMap)

NextContainers == OnSlotMap \/ OnNamedSlotMapFew \/ OnMapOrBiMap

SpecContainers == Init /\ [][NextContainers]_vars

(***************************************************************************)
(* The temporary strings as a state machine: threads are spawned, call the *)
(* four functions and end.  A &'static str is Send, so what a thread was   *)
(* returned can still be read when the thread is gone (as the value of its *)
(* JoinHandle, for one).                                                   *)
(***************************************************************************)

(* One call of f on thread t: the buffer is cleared, grows if it has to,   *)
(* is written, and a str of its ptr and len is returned.  A panic unwinds  *)
(* the thread: a spawned thread ends, the main thread ends the process.    *)
TempCall(f) ==
  \E t \in Threads, s \in Inputs :
    /\ halt = "run"
    /\ threads[t] = "live"
    /\ LET c == Converted(f, s)
           b == buffs[t][f]
           need == Needed(f, s)
       IN
       \E a \in Places(heap, b, need) :
         LET h1 == HeapAfter(heap, b, a, c.text)
             b1 == [ptr |-> a, cap |-> IF need > b.cap THEN need ELSE b.cap,
                    len |-> Len(c.text)]
             bs1 == [buffs[t] EXCEPT ![f] = b1]
         IN
         IF c.panic
         THEN /\ results' = [results EXCEPT ![t][f] = None]
              /\ last' = Call(f, t, s, Panic)
              /\ IF t = MainThread
                 THEN /\ halt' = "panic"
                      /\ threads' = threads
                      /\ heap' = h1
                      /\ buffs' = [buffs EXCEPT ![t] = bs1]
                 ELSE /\ halt' = halt
                      /\ threads' = [threads EXCEPT ![t] = "done"]
                      /\ heap' = HeapAtExit(h1, bs1)
                      /\ buffs' = [buffs EXCEPT ![t] = [g \in Fns |-> NoBuf]]
         ELSE /\ results' = [results EXCEPT ![t][f] =
                               Some([ptr |-> a, len |-> Len(c.text), text |-> c.text])]
              /\ last' = Call(f, t, s, Some(c.text))
              /\ heap' = h1
              /\ buffs' = [buffs EXCEPT ![t] = bs1]
              /\ UNCHANGED <<halt, threads>>
    /\ UNCHANGED <<sm, hist, build, map, bimap, nsm, nhist>>

ToLowercase == TempCall("temp.to_lowercase")

ToUppercase == TempCall("temp.to_uppercase")

EscapeStr == TempCall("temp.escape_str")

UnescapeStr == TempCall("temp.unescape_str")

(* thread::spawn *)
ThreadSpawn ==
  \E t \in Threads :
    /\ halt = "run"
    /\ threads[t] = "new"
    /\ threads' = [threads EXCEPT ![t] = "live"]
    /\ last' = Call("thread.spawn", t, <<>>, None)
    /\ UNCHANGED <<sm, hist, build, map, bimap, nsm, nhist, halt, heap, buffs, results>>

(* A spawned thread returns: its thread locals are destroyed. *)
ThreadExit ==
  \E t \in Threads \ {MainThread} :
    /\ halt = "run"
    /\ threads[t] = "live"
    /\ threads' = [threads EXCEPT ![t] = "done"]
    /\ heap' = HeapAtExit(heap, buffs[t])
    /\ buffs' = [buffs EXCEPT ![t] = [g \in Fns |-> NoBuf]]
    /\ last' = Call("thread.exit", t, <<>>, None)
    /\ UNCHANGED <<sm, hist, build, map, bimap, nsm, nhist, halt, results>>

NextTemp ==
  \/ ToLowercase \/ ToUppercase \/ EscapeStr \/ UnescapeStr
  \/ ThreadSpawn \/ ThreadExit

SpecTemp == Init /\ [][NextTemp]_vars

(***************************************************************************)
(* Claims about the SlotMap.                                               *)
(***************************************************************************)

C3_DenseSlotsAgree ==
  /\ Len(sm.values) = Len(sm.keys)
  /\ \A i \in 1..Len(sm.keys) :
       /\ sm.keys[i].idx < Len(sm.slots)
       /\ sm.slots[sm.keys[i].idx + 1].idx = i - 1
       /\ sm.slots[sm.keys[i].idx + 1].gen = sm.keys[i].gen

(* C3 witness: after removes and slot reuse the dense order differs from   *)
(* the slot order, with a free slot present.                               *)
C3_Witness ==
  /\ Len(sm.keys) >= 2
  /\ sm.freelist # None
  /\ \E i \in 1..Len(sm.keys) : sm.keys[i].idx # i - 1 /\ sm.keys[i].gen > 0

(* C4: the NULL key (slot index 0, generation 0) is never returned by      *)
(* insert or insert_with_key.                                              *)
C4_NullNeverReturned ==
  last.op \in {"insert", "insert_with_key"} => last.ret # Some(NULL)

(* C5: the generation of a slot never regresses and never repeats: a       *)
(* successful remove raises the generation of the freed slot, and nothing  *)
(* else changes a generation, also at the maximum of the counter.          *)
C5_GenNeverRepeats ==
  [][/\ \A i \in 1..Len(sm.slots) :
          /\ sm'.slots[i].gen >= sm.slots[i].gen
          /\ sm'.slots[i].gen # sm.slots[i].gen =>
               last'.op = "remove" /\ last'.key.idx = i - 1
     /\ (last'.op = "remove" /\ last'.ret # None) =>
          /\ last'.ret # Panic
          /\ sm'.slots[last'.key.idx + 1].gen > sm.slots[last'.key.idx + 1].gen]_vars

(***************************************************************************)
(* Claims about the Map and the BiMap.                                     *)
(***************************************************************************)

(* The three arrays of a Map are parallel. *)
M_parallel(m) ==
  /\ Len(m.keys) = Len(m.values)
  /\ Len(m.hashes) = Len(m.values)
  /\ \A i \in 1..Len(m.keys) : m.hashes[i] = M_hash(m.keys[i])

(* C7: after any sequence of Map operations the keys, values and hashes    *)
(* arrays have the same length and hashes[i] is the hash of keys[i].       *)
C7_MapParallel == halt = "run" => M_parallel(map)

(* C8: after any sequence of BiMap operations the four arrays have the     *)
(* same length, key_hashes[i] is the hash of keys[i] and value_hashes[i]   *)
(* is the hash of values[i].                                               *)
C8_BiMapParallel ==
  halt = "run" =>
    /\ Len(bimap.keys) = Len(bimap.values)
    /\ Len(bimap.key_hashes) = Len(bimap.values)
    /\ Len(bimap.value_hashes) = Len(bimap.values)
    /\ \A i \in 1..Len(bimap.values) :
         /\ bimap.key_hashes[i] = BM_hash_key(bimap.keys[i])
         /\ bimap.value_hashes[i] = BM_hash_value(bimap.values[i])

(* C9: for a key k present with value v, remove_by_key(k) returns          *)
(* Some((k, v)), the length decreases by one, find_value(k) is None        *)
(* afterwards and every other key keeps its value; remove_by_index(i) with *)
(* i < len does the same for the pair stored at index i.                   *)
C9_RemoveExact ==
  [][/\ (/\ last'.op = "map.remove_by_key"
         /\ M_parallel(map)
         /\ M_find_value(map, last'.key) # None) =>
          /\ last'.ret = Some(<<last'.key, M_find_value(map, last'.key).val>>)
          /\ M_len(map') = M_len(map) - 1
          /\ M_find_value(map', last'.key) = None
          /\ \A k \in MapKeys \ {last'.key} :
               M_find_value(map', k) = M_find_value(map, k)
     /\ (/\ last'.op = "map.remove_by_index"
         /\ M_parallel(map)
         /\ last'.key < M_len(map)) =>
          /\ last'.ret = Some(<<map.keys[last'.key + 1], map.values[last'.key + 1]>>)
          /\ M_len(map') = M_len(map) - 1
          /\ \A k \in MapKeys \ {map.keys[last'.key + 1]} :
               M_find_value(map', k) = M_find_value(map, k)]_vars

(* C10: no sequence of safe operations panics (the Index accessors apart); *)
(* in particular remove_by_index, remove_by_key, remove_by_value and pop   *)
(* never panic.                                                            *)
C10_NoPanic == halt # "panic"

(***************************************************************************)
(* Claims about the NamedSlotMap.                                          *)
(***************************************************************************)

(* The set of the elements of a sequence. *)
Range(s) == {s[i] : i \in 1..Len(s)}

(* C6: the set of keys in the SlotMap's dense key array equals the set of  *)
(* keys in the BiMap's key column, and both have the same size.            *)
C6_SameKeySets ==
  /\ Range(nsm.slot_map.keys) = Range(nsm.id_bindings.keys)
  /\ Len(nsm.slot_map.keys) = Len(nsm.id_bindings.keys)

(* C6 witness: a remove succeeded while another key stays bound, and a     *)
(* freed slot has been reused.                                             *)
C6_Witness ==
  /\ last.op = "nsm.remove"
  /\ last.ret \notin {None, Panic, UB}
  /\ nsm.id_bindings.keys # <<>>
  /\ \E k \in Range(nsm.slot_map.keys) : k.gen > 0

(***************************************************************************)
(* Claims about lookups and inserts of the Map and the BiMap.              *)
(***************************************************************************)

(* C11: after insert_at_key(k, v), find_key(v) is Some(k) and find_value(k) *)
(* is Some(v), and after any interleaving of insert_at_key and             *)
(* insert_at_value the two directions agree: find_key(find_value(k)) = k   *)
(* for every stored key, find_value(find_key(v)) = v for every stored      *)
(* value.                                                                  *)
C11_BothDirections ==
  halt = "run" =>
    /\ last.op = "bimap.insert_at_key" =>
         /\ BM_find_key(bimap, last.val) = Some(last.key)
         /\ BM_find_value(bimap, last.key) = Some(last.val)
    /\ \A i \in 1..Len(bimap.keys) :
         LET v == BM_find_value(bimap, bimap.keys[i]) IN
         v \notin {None, UB} /\ BM_find_key(bimap, v.val) = Some(bimap.keys[i])
    /\ \A i \in 1..Len(bimap.values) :
         LET k == BM_find_key(bimap, bimap.values[i]) IN
         k \notin {None, UB} /\ BM_find_value(bimap, k.val) = Some(bimap.values[i])

(* C12: maybe_contains_key of the Map, maybe_contains_key and               *)
(* maybe_contains_value of the BiMap and maybe_contains_id of the          *)
(* NamedSlotMap never return false for a probe for which contains_key,     *)
(* contains_value or contains_id returns true (contains is                 *)
(* index_of(..).is_some()).                                                *)
C12_NoFalseNegative ==
  /\ \A k \in MapKeys :
       M_index_of_key(map, k) \notin {None, UB} => M_maybe_contains_key(map, k)
  /\ \A k \in BKeys :
       BM_index_of_key(bimap, k) \notin {None, UB} => BM_maybe_contains_key(bimap, k)
  /\ \A v \in Names :
       BM_index_of_value(bimap, v) \notin {None, UB} => BM_maybe_contains_value(bimap, v)
  /\ \A id \in Names :
       NSM_id_index(nsm, id) \notin {None, UB} => NSM_maybe_contains_id(nsm, id)

(* C12 witness: after a removal the BiMap still contains a value, and      *)
(* maybe_contains_value answers true for it.                               *)
C12_Witness ==
  /\ last.op = "bimap.remove_by_key"
  /\ last.ret \notin {None, Panic, UB}
  /\ \E v \in Names :
       LET r == BM_index_of_value(bimap, v) IN
       r \notin {None, UB} /\ BM_maybe_contains_value(bimap, v)

(* C13: in a state reached by Map operations, maybe_contains_key(p) is     *)
(* true while contains_key(p) is false only if a key stored in the map     *)
(* differs from p and has the hash of p; never because of a hash a removed *)
(* or displaced entry left behind.                                         *)
C13_OnlyGenuineCollisions ==
  halt = "run" =>
    \A p \in MapKeys :
      (M_maybe_contains_key(map, p) /\ M_index_of_key(map, p) = None) =>
        \E i \in 1..Len(map.keys) :
          map.keys[i] # p /\ M_hash(map.keys[i]) = M_hash(p)

(* C14: for every reachable map, key k and value v, after insert(k, v)     *)
(* find_value(k) returns Some(v), whether k was present or absent.         *)
C14_InsertThenFind ==
  last.op = "map.insert" =>
    /\ halt = "run"
    /\ M_find_value(map, last.key) = Some(last.val)

(* The indices at which the Map stores key k. *)
M_positions(m, k) == {i \in 1..Len(m.keys) : m.keys[i] = k}

(* The first of a non-empty set of indices. *)
First(P) == CHOOSE i \in P : \A j \in P : i <= j

(* C15: insert(k, v) on a key present with value v0 returns Some(v0),      *)
(* leaves the length, every other value and every entry's position         *)
(* unchanged; on an absent key it returns None and the length grows by     *)
(* exactly one.                                                            *)
C15_InsertEffect ==
  [][last'.op = "map.insert" =>
       LET P == M_positions(map, last'.key) IN
       /\ P # {} =>
            /\ last'.ret = Some(map.values[First(P)])
            /\ M_len(map') = M_len(map)
            /\ map'.keys = map.keys
            /\ map'.hashes = map.hashes
            /\ Len(map'.values) = Len(map.values)
            /\ \A j \in 1..Len(map.values) :
                 j # First(P) => map'.values[j] = map.values[j]
       /\ P = {} =>
            /\ last'.ret = None
            /\ M_len(map') = M_len(map) + 1]_vars

(* The Map and the BiMap with one entry appended. *)
M_pushed(m, key, value) ==
  [keys |-> Append(m.keys, key),
   values |-> Append(m.values, value),
   hashes |-> Append(m.hashes, M_hash(key))]

(* C16: insert_unique_key(k, v) of the Map and the BiMap when k is         *)
(* present, and insert_unique_value(k, v) when v is present, return        *)
(* Some((k, v)) and leave every array unmodified; when the key (resp.      *)
(* value) is absent they return None and append exactly one entry.         *)
C16_UniqueInserts ==
  [][LET k == last'.key
         v == last'.val
     IN
     /\ last'.op = "map.insert_unique_key" =>
          IF \E i \in 1..Len(map.keys) : map.keys[i] = k
          THEN last'.ret = Some(<<k, v>>) /\ map' = map
          ELSE last'.ret = None /\ map' = M_pushed(map, k, v)
     /\ last'.op = "map.insert_unique_value" =>
          IF \E i \in 1..Len(map.values) : map.values[i] = v
          THEN last'.ret = Some(<<k, v>>) /\ map' = map
          ELSE last'.ret = None /\ map' = M_pushed(map, k, v)
     /\ last'.op = "bimap.insert_unique_key" =>
          IF \E i \in 1..Len(bimap.keys) : bimap.keys[i] = k
          THEN last'.ret = Some(<<k, v>>) /\ bimap' = bimap
          ELSE last'.ret = None /\ bimap' = BM_push(bimap, k, v)
     /\ last'.op = "bimap.insert_unique_value" =>
          IF \E i \in 1..Len(bimap.values) : bimap.values[i] = v
          THEN last'.ret = Some(<<k, v>>) /\ bimap' = bimap
          ELSE last'.ret = None /\ bimap' = BM_push(bimap, k, v)]_vars

(* C17: pop on a non-empty Map returns the pair stored at the last index,  *)
(* reduces the length by one and leaves every remaining entry at its index *)
(* with its key, value and hash; on an empty Map it returns None and       *)
(* changes nothing.                                                        *)
C17_PopEffect ==
  [][last'.op = "map.pop" =>
       LET n == M_len(map) IN
       IF n > 0
       THEN /\ Len(map.keys) = n /\ Len(map.hashes) = n
            /\ last'.ret = Some(<<map.keys[n], map.values[n]>>)
            /\ M_len(map') = n - 1
            /\ map'.keys = SubSeq(map.keys, 1, n - 1)
            /\ map'.values = SubSeq(map.values, 1, n - 1)
            /\ map'.hashes = SubSeq(map.hashes, 1, n - 1)
       ELSE last'.ret = None /\ map' = map]_vars

(***************************************************************************)
(* Claims about the operations of the NamedSlotMap.                        *)
(***************************************************************************)

(* C18: insert(name, item) when name is bound to key k returns             *)
(* (k, Some(old item)), makes get(k) return the new item and leaves the    *)
(* length, the set of live keys and all name bindings unchanged; when name *)
(* is unbound it returns (fresh key, None), the length grows by one, and   *)
(* afterwards find_key(name) = Some(key), find_id(key) = Some(name) and    *)
(* get(key) = Some(item).                                                  *)
C18_InsertEffect ==
  [][last'.op = "nsm.insert" =>
       LET name == last'.key
           item == last'.val
           b == NSM_find_key(nsm, name)
       IN
       IF b \notin {None, UB}
       THEN /\ last'.ret = Ret(<<b.val, NSM_get(nsm, b.val)>>)
            /\ NSM_get(nsm, b.val) \notin {None, UB}
            /\ NSM_get(nsm', b.val) = Some(item)
            /\ NSM_len(nsm') = NSM_len(nsm)
            /\ Range(nsm'.slot_map.keys) = Range(nsm.slot_map.keys)
            /\ nsm'.id_bindings = nsm.id_bindings
       ELSE /\ b = None
            /\ last'.ret.tag = "Ret"
            /\ last'.ret.val[2] = None
            /\ last'.ret.val[1] \notin nhist
            /\ last'.ret.val[1] \notin Range(nsm.slot_map.keys)
            /\ NSM_len(nsm') = NSM_len(nsm) + 1
            /\ NSM_find_key(nsm', name) = Some(last'.ret.val[1])
            /\ NSM_find_id(nsm', last'.ret.val[1]) = Some(name)
            /\ NSM_get(nsm', last'.ret.val[1]) = Some(item)]_vars

(* C18 witness: an insert under a bound name replaced a different item,    *)
(* the key of the name being one of a reused slot.                         *)
C18_Witness ==
  /\ last.op = "nsm.insert"
  /\ last.ret.tag = "Ret"
  /\ last.ret.val[2] \notin {None, Some(last.val)}
  /\ last.ret.val[1].gen > 0
  /\ NSM_len(nsm) > 1

C21_InsertUniqueEffect ==
  [][last'.op = "nsm.insert_unique" =>
       LET name == last'.key
           item == last'.val
       IN
       IF \E i \in 1..Len(nsm.id_bindings.values) : nsm.id_bindings.values[i] = name
       THEN last'.ret = Err(item) /\ nsm' = nsm
       ELSE /\ last'.ret.tag = "Ok"
            /\ last'.ret.val \in Range(nsm'.slot_map.keys)
            /\ NSM_len(nsm') = NSM_len(nsm) + 1
            /\ NSM_get(nsm', last'.ret.val) = Some(item)
            /\ NSM_find_key(nsm', name) = Some(last'.ret.val)
            /\ NSM_find_id(nsm', last'.ret.val) = Some(name)]_vars

(* C21 witness: an insert_unique was refused under a name bound to a       *)
(* different item, with a freed slot waiting in the free list.             *)
C21_Witness ==
  /\ last.op = "nsm.insert_unique"
  /\ last.ret = Err(last.val)
  /\ NSM_find_key(nsm, last.key) \notin {None, UB}
  /\ NSM_get(nsm, NSM_find_key(nsm, last.key).val) \notin {Some(last.val), None, UB}
  /\ nsm.slot_map.freelist # None

(***************************************************************************)
(* Further claims about the SlotMap.                                       *)
(***************************************************************************)

C23_CheckedLookups ==
  \A key \in ProbeKeys :
    (key.idx >= Len(sm.slots) \/ sm.slots[key.idx + 1].gen # key.gen) =>
      /\ SM_get(sm, key) = None
      /\ SM_get_mut(sm, key) = None
      /\ ~SM_contains_key(sm, key)
      /\ ~SM_get_reads_dense(sm, key)

(* C23 witness: a stale key of a slot that holds a live value, beside a    *)
(* slot index outside the slot table.                                      *)
C23_Witness ==
  /\ Len(sm.slots) < MaxSlots
  /\ SM_get(sm, KeyData(Len(sm.slots), 0)) = None
  /\ \E key \in hist.dead :
       /\ key.idx < Len(sm.slots)
       /\ sm.slots[key.idx + 1].gen # key.gen
       /\ sm.slots[key.idx + 1].idx < Len(sm.values)
       /\ \E i \in 1..Len(sm.keys) : sm.keys[i].idx = key.idx
       /\ SM_get(sm, key) = None

(***************************************************************************)
(* Claims about the indexing accessors.                                    *)
(***************************************************************************)

(* The relation C24 states between an indexing accessor's outcome and the  *)
(* outcome of its fallible lookup: a panic exactly on None, and the        *)
(* element of the lookup otherwise.                                        *)
IndexAgrees(index, lookup) ==
  /\ index = Panic <=> lookup = None
  /\ lookup \notin {None, UB} => index = Ret(lookup.val)

(* C24: SlotMap[key], NamedSlotMap[key], NamedSlotMap[name], Map[&key] and *)
(* BiMap[&key] panic exactly when the fallible lookup (get, find_key,      *)
(* find_value) returns None, and otherwise return the element that lookup  *)
(* returns.                                                                *)
C24_IndexMatchesLookup ==
  /\ \A key \in ProbeKeys :
       /\ IndexAgrees(SM_index(sm, key), SM_get(sm, key))
       /\ IndexAgrees(SM_index_mut(sm, key), SM_get_mut(sm, key))
  /\ \A key \in NsmProbeKeys :
       IndexAgrees(NSM_index_key(nsm, key), NSM_get(nsm, key))
  /\ \A id \in Names :
       LET k == NSM_find_key(nsm, id)
           index == NSM_index_id(nsm, id)
       IN  /\ index = Panic <=> k = None
           /\ k \notin {None, UB} => IndexAgrees(index, NSM_get(nsm, k.val))
  /\ \A key \in MapKeys : IndexAgrees(M_index(map, key), M_find_value(map, key))
  /\ \A key \in BKeys : IndexAgrees(BM_index(bimap, key), BM_find_value(bimap, key))

(* C24 witness: after a remove the NamedSlotMap has a name whose index     *)
(* access panics and a name whose index access returns its item.           *)
C24_Witness ==
  /\ last.op = "nsm.remove"
  /\ \E id \in Names : NSM_index_id(nsm, id) = Panic
  /\ \E id \in Names : NSM_index_id(nsm, id).tag = "Ret"
  /\ \E key \in nhist : NSM_index_key(nsm, key) = Panic

(***************************************************************************)
(* Claims about SlotMap::insert_with_key.                                  *)
(***************************************************************************)

(* C25: insert_with_key(f) passes to f exactly the key the call returns,   *)
(* has the slot of that key reserved (bound to the coming dense position,  *)
(* nothing pushed yet) when f runs, leaves get(returned key) yielding f's  *)
(* value, and has the effect and result of insert(that value).             *)
C25_InsertWithKeyAsInsert ==
  [][last'.op = "insert_with_key" =>
       LET key == last'.ret.val
           i == SM_insert(sm, last'.val)
       IN /\ last'.key = key
          /\ \E f \in Closures :
               LET r == SM_insert_with_key(sm, f) IN
               /\ r.sm = sm' /\ r.key = key /\ r.value = last'.val
               /\ key.idx < Len(r.seen.slots)
               /\ r.seen.slots[key.idx + 1] = [idx |-> SM_len(sm), gen |-> key.gen]
               /\ r.seen.values = sm.values /\ r.seen.keys = sm.keys
          /\ SM_get(sm', key) = Some(last'.val)
          /\ i.sm = sm' /\ i.key = key]_vars

(* C25 witness: insert_with_key reused a freed slot other than the one at  *)
(* the dense position, with a closure value that depends on the key.       *)
C25_Witness ==
  /\ last.op = "insert_with_key"
  /\ last.key.gen = 1 /\ last.key.idx # SM_len(sm) - 1
  /\ last.val = "y"
  /\ SM_get(sm, last.key) = Some("y")

(***************************************************************************)
(* Claims about BiMap::insert_at_key and insert_at_value.                  *)
(***************************************************************************)

(* The indices at which the BiMap stores key k, and value v. *)
BM_key_positions(m, k) == {i \in 1..Len(m.keys) : m.keys[i] = k}

BM_value_positions(m, v) == {i \in 1..Len(m.values) : m.values[i] = v}

(* C26: insert_at_key(k, v) with k present replaces the entry's value and  *)
(* stored value hash, returns the old value and keeps the length; with k   *)
(* absent it appends one entry and returns None.  insert_at_value(v, k)    *)
(* does the same on the value column, replacing the key and the key hash.  *)
C26_InsertAtEffect ==
  [][LET k == last'.key
         v == last'.val
     IN
     /\ last'.op = "bimap.insert_at_key" =>
          LET P == BM_key_positions(bimap, k) IN
          IF P # {}
          THEN /\ First(P) <= Len(bimap.values)
               /\ First(P) <= Len(bimap.value_hashes)
               /\ last'.ret = Some(bimap.values[First(P)])
               /\ bimap' = [bimap EXCEPT !.values[First(P)] = v,
                                         !.value_hashes[First(P)] = BM_hash_value(v)]
               /\ BM_len(bimap') = BM_len(bimap)
          ELSE last'.ret = None /\ bimap' = BM_push(bimap, k, v)
     /\ last'.op = "bimap.insert_at_value" =>
          LET P == BM_value_positions(bimap, v) IN
          IF P # {}
          THEN /\ First(P) <= Len(bimap.keys)
               /\ First(P) <= Len(bimap.key_hashes)
               /\ last'.ret = Some(bimap.keys[First(P)])
               /\ bimap' = [bimap EXCEPT !.keys[First(P)] = k,
                                         !.key_hashes[First(P)] = BM_hash_key(k)]
               /\ BM_len(bimap') = BM_len(bimap)
          ELSE last'.ret = None /\ bimap' = BM_push(bimap, k, v)]_vars

(***************************************************************************)
(* Claims about the free list of the SlotMap.                              *)
(***************************************************************************)

(* The slot indices met by following slot.idx from the free-list head up   *)
(* to the tail, in at most fuel steps; the walk also ends at an index      *)
(* outside the slot table.                                                 *)
RECURSIVE FreeWalk(_, _, _)
FreeWalk(m, i, fuel) ==
  IF fuel = 0 THEN <<>>
  ELSE IF i >= Len(m.slots) \/ i = m.freelist.val.tail THEN <<i>>
       ELSE <<i>> \o FreeWalk(m, m.slots[i + 1].idx, fuel - 1)

(* The free list as the sequence of its slot indices, head first.  A walk  *)
(* that does not reach the tail has more entries than there are slots.     *)
FreeSeq(m) ==
  IF m.freelist = None THEN <<>>
  ELSE FreeWalk(m, m.freelist.val.head, Len(m.slots) + 1)

FreeSlots(m) ==
  {i \in 0..(Len(m.slots) - 1) : \A j \in 1..Len(m.keys) : m.keys[j].idx # i}

check_slot_map ==
  LET i0 == SM_insert(SM_new, "x")
      i1 == SM_insert(i0.sm, "y")
      r0 == SM_remove(i1.sm, i0.key, "release")
      i2 == SM_insert(r0.sm, "x")
      i3 == SM_insert(i2.sm, "y")
  IN [expect_keys |-> <<i1.key, i2.key, i3.key>>,
      keys |-> [i \in 1..Len(SM_pair_iter(i3.sm)) |-> SM_pair_iter(i3.sm)[i][1]],
      keys_mut |-> [i \in 1..Len(SM_pair_iter_mut(i3.sm)) |->
                      SM_pair_iter_mut(i3.sm)[i][1]]]

(* The pairs (keys[i], values[i]) of the arena in index order. *)
DensePairs(m) == [i \in 1..SM_len(m) |-> <<m.keys[i], m.values[i]>>]

(* C29: insert puts the new element at the last dense position; remove of *)
(* the element at position p moves the former last element to p and       *)
(* leaves every other position alone; pair_iter and pair_iter_mut yield    *)
(* exactly len() pairs (keys[i], values[i]) in index order, so that after  *)
(* insert k0, k1, remove k0, insert k2, k3 the iteration is k1, k2, k3.    *)
C29_DenseOrder ==
  [][/\ last'.op \in {"insert", "insert_with_key"} =>
          /\ sm'.keys = Append(sm.keys, last'.ret.val)
          /\ sm'.values = Append(sm.values, last'.val)
     /\ (last'.op = "remove" /\ last'.ret \notin {None, Panic}) =>
          \E p \in 1..Len(sm.keys) :
            /\ sm.keys[p] = last'.key
            /\ last'.ret = Some(sm.values[p])
            /\ Len(sm'.keys) = Len(sm.keys) - 1
            /\ Len(sm'.values) = Len(sm.values) - 1
            /\ \A j \in 1..Len(sm'.keys) :
                 /\ sm'.keys[j] = sm.keys[IF j = p THEN Len(sm.keys) ELSE j]
                 /\ sm'.values[j] = sm.values[IF j = p THEN Len(sm.values) ELSE j]
     /\ Len(sm'.keys) = SM_len(sm')
     /\ SM_pair_iter(sm') = DensePairs(sm')
     /\ SM_pair_iter_mut(sm') = DensePairs(sm')
     /\ check_slot_map.keys = check_slot_map.expect_keys
     /\ check_slot_map.keys_mut = check_slot_map.expect_keys]_vars

(* C29 witness: the arena of the test scenario after its last insert: k0   *)
(* is dead and the iteration yields k1, k2, k3, k2 in the slot of k0.      *)
C29_Witness ==
  /\ last.op = "insert" /\ last.ret.val = KeyData(2, 0)
  /\ hist.dead = {KeyData(0, 0)}
  /\ Len(SM_pair_iter(sm)) = 3
  /\ [i \in 1..3 |-> SM_pair_iter(sm)[i][1]] = <<KeyData(1, 0), KeyData(0, 1), KeyData(2, 0)>>

(***************************************************************************)
(* Claims about key lookup under hash collisions.                          *)
(***************************************************************************)

(* C30: in the Map and the BiMap, index_of_key(p), find_value(p) and       *)
(* contains_key(p) select the first entry whose stored key equals p, and   *)
(* no entry at all when no stored key equals p, whatever stored keys have  *)
(* the hash of p.                                                          *)
C30_LookupByStoredKey ==
  halt = "run" =>
    /\ \A p \in MapKeys :
         LET P == M_positions(map, p) IN
         IF P # {}
         THEN /\ M_index_of_key(map, p) = Some(First(P) - 1)
              /\ First(P) <= Len(map.values)
              /\ M_find_value(map, p) = Some(map.values[First(P)])
              /\ M_contains_key(map, p) = TRUE
         ELSE /\ M_index_of_key(map, p) = None
              /\ M_find_value(map, p) = None
              /\ M_contains_key(map, p) = FALSE
    /\ \A p \in BKeys :
         LET P == BM_key_positions(bimap, p) IN
         IF P # {}
         THEN /\ BM_index_of_key(bimap, p) = Some(First(P) - 1)
              /\ First(P) <= Len(bimap.values)
              /\ BM_find_value(bimap, p) = Some(bimap.values[First(P)])
              /\ BM_contains_key(bimap, p) = TRUE
         ELSE /\ BM_index_of_key(bimap, p) = None
              /\ BM_find_value(bimap, p) = None
              /\ BM_contains_key(bimap, p) = FALSE

(***************************************************************************)
(* Claims about Map::merge_discard and merge_discard_to_vec.               *)
(***************************************************************************)

(* The pairs of a map in index order (what its IntoIterator yields). *)
M_pairs(m) == [i \in 1..Len(m.keys) |-> <<m.keys[i], m.values[i]>>]

(* The receiver m2 after a discarding merge of other into m: every entry   *)
(* of m is where and what it was, and every pair of other whose key m did  *)
(* not store is stored in m2.                                              *)
MergeDiscardEffect(m, other, m2) ==
  /\ Len(m2.keys) >= Len(m.keys) /\ Len(m2.values) >= Len(m.values)
  /\ \A i \in 1..Len(m.keys) : m2.keys[i] = m.keys[i]
  /\ \A i \in 1..Len(m.values) : m2.values[i] = m.values[i]
  /\ \A j \in 1..Len(other.keys) :
       M_positions(m, other.keys[j]) = {} =>
         \E i \in 1..Len(m2.keys) :
           /\ i <= Len(m2.values)
           /\ m2.keys[i] = other.keys[j] /\ m2.values[i] = other.values[j]

(* C31: merge_discard(other) and merge_discard_to_vec(other) keep the      *)
(* receiver's value for every key stored in both maps and add every pair   *)
(* of other whose key was absent; merge_discard_to_vec returns exactly the *)
(* rejected pairs of other in other's order, so that the receiver's length *)
(* after plus the returned length is its length before plus other's.       *)
C31_MergeDiscard ==
  [][\A other \in OtherMaps :
       /\ (/\ last'.op = "map.merge_discard"
           /\ M_longest(map) + M_len(other) <= MaxLen
           /\ M_merge_discard(map, other) = Res(map', last'.ret)) =>
            /\ last'.ret = Unit
            /\ MergeDiscardEffect(map, other, map')
       /\ (/\ last'.op = "map.merge_discard_to_vec"
           /\ M_longest(map) + M_len(other) <= MaxLen
           /\ M_merge_discard_to_vec(map, other) = Res(map', last'.ret)) =>
            LET Rejected(pair) == M_positions(map, pair[1]) # {} IN
            /\ last'.ret = Ret(SelectSeq(M_pairs(other), Rejected))
            /\ MergeDiscardEffect(map, other, map')
            /\ M_len(map') + Len(last'.ret.val) = M_len(map) + M_len(other)]_vars

(***************************************************************************)
(* Claims about the iterators of the NamedSlotMap.                         *)
(***************************************************************************)

(* C32: id_value_iter and tri_iter yield exactly len() items, one per live *)
(* key; each (name, key, value) of tri_iter has value = get(key) and       *)
(* name = find_id(key), id_value_iter yields the same names and values,    *)
(* and no lookup reads outside the dense store.                            *)
C32_IteratorsByKey ==
  LET tri == NSM_tri_iter(nsm)
      idv == NSM_id_value_iter(nsm)
  IN /\ Len(tri) = NSM_len(nsm) /\ Len(idv) = NSM_len(nsm)
     /\ \A i \in 1..Len(tri) :
          /\ tri[i] # UB /\ idv[i] # UB
          /\ NSM_get(nsm, tri[i].val[2]) = Some(tri[i].val[3])
          /\ NSM_find_id(nsm, tri[i].val[2]) = Some(tri[i].val[1])
          /\ idv[i].val = <<tri[i].val[1], tri[i].val[3]>>
     /\ {tri[i].val[2] : i \in 1..Len(tri)} = Range(nsm.slot_map.keys)
     /\ \A i, j \in 1..Len(tri) : i # j => tri[i].val[2] # tri[j].val[2]

(* C32 witness: after a remove and an insert, tri_iter yields two items    *)
(* with different values, the first for a key whose slot index is not its  *)
(* dense position.                                                         *)
C32_Witness ==
  LET tri == NSM_tri_iter(nsm) IN
  /\ Len(tri) = 2
  /\ tri[1] # UB /\ tri[2] # UB
  /\ tri[1].val[2].idx = 1
  /\ tri[1].val[3] # tri[2].val[3]
  /\ SumGen(nsm.slot_map.slots) >= 1

(***************************************************************************)
(* Claims about the alignment of the two halves of the NamedSlotMap.       *)
(***************************************************************************)

(* C33: in every state reached by the inserts and remove of the            *)
(* NamedSlotMap, the dense key array of the SlotMap and the key column of  *)
(* the BiMap hold the same Key at every index.                             *)
C33_SameKeySequences ==
  /\ Len(nsm.slot_map.keys) = Len(nsm.id_bindings.keys)
  /\ \A i \in 1..Len(nsm.slot_map.keys) :
       nsm.slot_map.keys[i] = nsm.id_bindings.keys[i]

(* C33 witness: the first of two entries was removed, which moved the      *)
(* second to index 0, and the freed slot was reused for a new entry.       *)
C33_Witness ==
  /\ last.op \in {"nsm.insert", "nsm.insert_unique", "nsm.insert_with_key",
                  "nsm.insert_unique_with_key"}
  /\ nsm.slot_map.keys = <<KeyData(1, 0), KeyData(0, 1)>>
  /\ nsm.id_bindings.keys = <<KeyData(1, 0), KeyData(0, 1)>>

(***************************************************************************)
(* Claims about renaming in place.                                         *)
(***************************************************************************)

(* C34: after any sequence of safe operations of the NamedSlotMap, the     *)
(* renames through find_id_mut, ids_mut, id_value_iter_mut and             *)
(* tri_iter_mut included, every live key k has find_key(find_id(k)) =      *)
(* Some(k), and the stored value hash of every binding is the hash of the  *)
(* name stored for it.                                                     *)
C34_NamesStayFindable ==
  halt = "run" =>
    /\ \A i \in 1..Len(nsm.slot_map.keys) :
         LET k == nsm.slot_map.keys[i]
             id == NSM_find_id(nsm, k)
         IN /\ id \notin {None, UB}
            /\ NSM_find_key(nsm, id.val) = Some(k)
    /\ Len(nsm.id_bindings.value_hashes) = Len(nsm.id_bindings.values)
    /\ \A i \in 1..Len(nsm.id_bindings.values) :
         nsm.id_bindings.value_hashes[i] = BM_hash_value(nsm.id_bindings.values[i])

(***************************************************************************)
(* Claims about the uniqueness of Map keys.                                *)
(***************************************************************************)

(* C35: after any sequence of Map operations no two entries hold equal     *)
(* keys, so that find_value(k) is the only value stored under k.           *)
C35_UniqueKeys ==
  halt = "run" =>
    \A i, j \in 1..Len(map.keys) : i # j => map.keys[i] # map.keys[j]

(***************************************************************************)
(* Claims about keys the arena did not issue.                              *)
(***************************************************************************)

(* C36: for every Key value, issued by the arena or not, get and get_mut   *)
(* return None or read a dense position strictly below len(), and          *)
(* contains_key is true only of a key stored in the dense keys array: a    *)
(* key naming a free slot with the slot's current generation is not live.  *)
C36_AnyKeySafe ==
  \A key \in ProbeKeys :
    /\ SM_get_reads_dense(sm, key) => sm.slots[key.idx + 1].idx < SM_len(sm)
    /\ SM_get(sm, key) # UB
    /\ SM_get_mut(sm, key) # UB
    /\ SM_contains_key(sm, key) => \E i \in 1..Len(sm.keys) : sm.keys[i] = key

(***************************************************************************)
(* Claims about closures that abort.                                       *)
(***************************************************************************)

(* C37: when the closure given to SlotMap::insert_with_key, or to          *)
(* NamedSlotMap::insert_with_key / insert_unique_with_key on an unbound    *)
(* name, aborts before returning a value, the arena is as before the call: *)
(* no slot stays acquired, the free list is unchanged, and every slot      *)
(* whose generation matches the key the closure was given, or a key        *)
(* issued, points at a dense position below len().                         *)
C37_AbortLeavesArena ==
  [][/\ last'.op = "insert_with_key.unwind" =>
          /\ sm'.slots = sm.slots
          /\ sm'.freelist = sm.freelist
          /\ sm' = sm
          /\ \A key \in HeldKeys \cup {last'.key} :
               SM_contains_key(sm', key) => SM_get(sm', key) # UB
     /\ (/\ last'.op \in {"nsm.insert_with_key.unwind",
                          "nsm.insert_unique_with_key.unwind"}
         /\ NSM_find_key(nsm, last'.key) = None) =>
          /\ nsm'.slot_map.slots = nsm.slot_map.slots
          /\ nsm'.slot_map.freelist = nsm.slot_map.freelist
          /\ nsm' = nsm]_vars

(***************************************************************************)
(* Claims about the with_key inserts of the NamedSlotMap on a bound name.  *)
(***************************************************************************)

(* C38: insert_unique_with_key(name, f) on an already bound name does not  *)
(* call f, returns None and leaves both substructures unchanged;           *)
(* insert_with_key(name, f) on an already bound name calls f exactly once, *)
(* with the existing key, stores f's result under that key and returns     *)
(* (existing key, Some(old value)) without changing the length.            *)
C38_WithKeyOnBoundName ==
  [][LET name == last'.key
         f == last'.val
         b == NSM_find_key(nsm, name)
     IN
     /\ (last'.op = "nsm.insert_unique_with_key" /\ b # None) =>
          /\ NSM_insert_unique_with_key(nsm, name, f).calls = <<>>
          /\ last'.ret = None
          /\ nsm'.slot_map = nsm.slot_map
          /\ nsm'.id_bindings = nsm.id_bindings
     /\ (last'.op = "nsm.insert_with_key" /\ b # None) =>
          /\ b # UB
          /\ NSM_insert_with_key(nsm, name, f).calls = <<b.val>>
          /\ NSM_get(nsm, b.val) \notin {None, UB}
          /\ NSM_get(nsm', b.val) = Some(ApplyClosure(f, b.val))
          /\ last'.ret = Ret(<<b.val, NSM_get(nsm, b.val)>>)
          /\ NSM_len(nsm') = NSM_len(nsm)
          /\ nsm'.id_bindings = nsm.id_bindings]_vars

(* C38 witness: insert_with_key on a bound name whose key is of a reused   *)
(* slot, with a closure whose value depends on the generation, replaced a  *)
(* different value while another entry is stored.                          *)
C38_Witness ==
  /\ last.op = "nsm.insert_with_key"
  /\ last.val = "by_gen"
  /\ last.ret.tag = "Ret"
  /\ last.ret.val[2] = Some("x")
  /\ last.ret.val[1].gen = 1
  /\ NSM_get(nsm, last.ret.val[1]) = Some("y")
  /\ NSM_len(nsm) > 1

(***************************************************************************)
(* Claims about the thread local temporary strings.                        *)
(***************************************************************************)

(* C39: the temporary string a thread was returned by to_lowercase         *)
(* (likewise to_uppercase, escape_str, unescape_str) is not changed by a   *)
(* call on another thread, in any interleaving: the buffers in use are     *)
(* pairwise distinct, and the last string returned by a function on a      *)
(* thread reads as it was returned until that thread calls that function   *)
(* again.                                                                  *)
C39_ResultsKeptPerThread ==
  /\ \A t \in Threads, f \in Fns :
       results[t][f] # None =>
         ReadStr(heap, results[t][f].val) = results[t][f].val.text
  /\ \A t, u \in Threads, f, g \in Fns :
       (<<t, f>> # <<u, g>> /\ buffs[t][f].ptr # 0) => buffs[t][f].ptr # buffs[u][g].ptr
====
